---- MODULE Spec2Model ----
(***************************************************************************)
(* A model of the half-turn-metric cube tracker, CubeTracker in            *)
(* src/src/cube_simulator_full.py.  Python strings are modelled as         *)
(* sequences of one-character strings, so that slicing, indexing, len(),   *)
(* lower() and upper() are modelled by what they do to the characters.     *)
(* A 3 x 3 x 3 numpy array is modelled by its flat buffer: the element at  *)
(* index (i, j, k) is the element at position 9 i + 3 j + k, and a slot is *)
(* named by that position.                                                 *)
(***************************************************************************)
EXTENDS Integers, Sequences, FiniteSets, TLC

VARIABLES piece_current_ids_at_positions,
          piece_current_orientations_for_solver,
          piece_current_orientations_for_visualizer,
          move_history,
          raised,
          calls,
          loaded_tables,
          pc,
          call_move_sequence,
          call_moves_split,
          position,
          call_idx,
          returned,
          heap,
          class_attributes,
          trackers

\* loaded_tables: the keys of CubeBase.tables whose value is not None.
\* pc, call_move_sequence, call_moves_split, position: the statement a call
\* of apply_moves is at ("idle" between calls), its move_sequence argument,
\* the moves_split list its tokenizer built and the index of its
\* "for move in moves_split" loop.
\* call_idx: the index idx of its tokenizer loop, where the loop is run
\* iteration by iteration.
vars == <<piece_current_ids_at_positions, piece_current_orientations_for_solver,
          piece_current_orientations_for_visualizer, move_history, raised, calls,
          loaded_tables, pc, call_move_sequence, call_moves_split, position,
          call_idx, returned, heap, class_attributes, trackers>>

\* The variables the single tracker of Spec, StepSpec, LoadSpec and
\* StringSpec leaves alone: the value the last read accessor returned, the
\* objects of a program that builds several trackers, and the index of a
\* tokenizer loop run iteration by iteration.
others == <<returned, heap, class_attributes, trackers, call_idx>>

\* Number of apply_moves calls made on the tracker.
MaxCalls == 2

\* The slot of the index triple c, and the index triple of the slot s.
Position(c) == 9 * c[1] + 3 * c[2] + c[3]

Coord(s) == << s \div 9, (s \div 3) % 3, s % 3 >>

Slots == 0..26

------------------------------------------------------------------------------
\* The solved-state arrays of CubeBase.initialize, as written in the source:
\* first index front/middle/back, second top/middle/bottom, third
\* left/middle/right.

initial_ids_literal ==
  <<
    << <<  0,  1,  2 >>,
       <<  3,  4,  5 >>,
       <<  6,  7,  8 >> >>,

    << <<  9, 10, 11 >>,
       << 12, 13, 14 >>,
       << 15, 16, 17 >> >>,

    << << 18, 19, 20 >>,
       << 21, 22, 23 >>,
       << 24, 25, 26 >> >>
  >>

initial_solver_literal ==
  <<
    << << "0", "g", "0" >>,
       << "g", "y", "g" >>,
       << "0", "g", "0" >> >>,

    << << "g", "Z", "g" >>,
       << "x", "C", "X" >>,
       << "g", "z", "g" >> >>,

    << << "0", "g", "0" >>,
       << "g", "Y", "g" >>,
       << "0", "g", "0" >> >>
  >>

initial_visualizer_literal ==
  <<
    << << <<"x","y","Z">>, <<"y","Z">>, <<"X","y","Z">> >>,
       << <<"x","y">>, <<"y">>, <<"X","y">> >>,
       << <<"x","y","z">>, <<"y","z">>, <<"X","y","z">> >> >>,

    << << <<"x","Z">>, <<"Z">>, <<"X","Z">> >>,
       << <<"x">>, <<"C">>, <<"X">> >>,
       << <<"x","z">>, <<"z">>, <<"X","z">> >> >>,

    << << <<"x","Y","Z">>, <<"Y","Z">>, <<"X","Y","Z">> >>,
       << <<"x","Y">>, <<"Y">>, <<"X","Y">> >>,
       << <<"x","Y","z">>, <<"Y","z">>, <<"X","Y","z">> >> >>
  >>

At(lit, s) == lit[Coord(s)[1] + 1][Coord(s)[2] + 1][Coord(s)[3] + 1]

piece_initial_ids_at_positions == [p \in Slots |-> At(initial_ids_literal, p)]

piece_initial_orientations_for_solver == [p \in Slots |-> At(initial_solver_literal, p)]

piece_initial_orientations_for_visualizer == [p \in Slots |-> At(initial_visualizer_literal, p)]

CENTER_PIECE_IDS == {4, 10, 12, 13, 14, 16, 22}


\* edge_positions / corner_positions of categorize_positions_over_piece_types,
\* in the i, j, k scan order of the three nested loops.
ScanOrder == [n \in 1..27 |-> n - 1]

\* IsCornerSlot without the test on CENTER_PIECE_IDS.
IsCornerSlot_CentersIncluded(p) == piece_initial_orientations_for_solver[p] # "g"

IsEdgeSlot(p) ==
    /\ piece_initial_ids_at_positions[p] \notin CENTER_PIECE_IDS
    /\ piece_initial_orientations_for_solver[p] = "g"

IsCornerSlot(p) ==
    /\ piece_initial_ids_at_positions[p] \notin CENTER_PIECE_IDS
    /\ piece_initial_orientations_for_solver[p] # "g"

edge_positions == SelectSeq(ScanOrder, IsEdgeSlot)

corner_positions == SelectSeq(ScanOrder, IsCornerSlot)

SeqRange(s) == {s[n] : n \in 1..Len(s)}

EdgeSlots == SeqRange(edge_positions)

CornerSlots == SeqRange(corner_positions)

\* edge_ids / corner_ids of categorize_ids_over_piece_types.
edge_ids == [n \in 1..Len(edge_positions) |-> piece_initial_ids_at_positions[edge_positions[n]]]

corner_ids == [n \in 1..Len(corner_positions) |-> piece_initial_ids_at_positions[corner_positions[n]]]

\* np.argwhere(piece_initial_ids_at_positions == piece_id)[0], for every id.
InitialPositionOf ==
    [piece_id \in 0..26 |-> CHOOSE p \in Slots : piece_initial_ids_at_positions[p] = piece_id]

------------------------------------------------------------------------------
\* The move alphabet: the keys of move_map, each a Python string.

FaceLetters == {"L", "R", "F", "B", "U", "D"}

Quarter(X) == <<X>>

Half(X) == <<X, "2">>

Prime(X) == <<X, "'">>

NoOp == <<"N">>

\* The keys of move_map, in the order the source lists them.
MoveKeys ==
    { <<"L">>, <<"L", "2">>, <<"L", "'">>, <<"R">>, <<"R", "2">>, <<"R", "'">>,
      <<"F">>, <<"F", "2">>, <<"F", "'">>, <<"B">>, <<"B", "2">>, <<"B", "'">>,
      <<"U">>, <<"U", "2">>, <<"U", "'">>, <<"D">>, <<"D", "2">>, <<"D", "'">>,
      <<"N">> }

FaceMoveKeys == {m \in MoveKeys : m # NoOp}

\* RotateArgs whose right-face functions pass the perspective of the top.
RotateArgs_RightFromTop ==
    [m \in FaceMoveKeys |->
        CASE m = <<"F">>      -> <<0, 0, -1>>
          [] m = <<"F", "2">> -> <<0, 0, -2>>
          [] m = <<"F", "'">> -> <<0, 0,  1>>
          [] m = <<"B">>      -> <<0, 2,  1>>
          [] m = <<"B", "2">> -> <<0, 2,  2>>
          [] m = <<"B", "'">> -> <<0, 2, -1>>
          [] m = <<"U">>      -> <<1, 0, -1>>
          [] m = <<"U", "2">> -> <<1, 0, -2>>
          [] m = <<"U", "'">> -> <<1, 0,  1>>
          [] m = <<"D">>      -> <<1, 2,  1>>
          [] m = <<"D", "2">> -> <<1, 2,  2>>
          [] m = <<"D", "'">> -> <<1, 2, -1>>
          [] m = <<"L">>      -> <<2, 0, -1>>
          [] m = <<"L", "2">> -> <<2, 0, -2>>
          [] m = <<"L", "'">> -> <<2, 0,  1>>
          [] m = <<"R">>      -> <<1, 2,  1>>
          [] m = <<"R", "2">> -> <<1, 2,  2>>
          [] m = <<"R", "'">> -> <<1, 2, -1>>]

\* RotateArgs whose half-turn functions rotate by one quarter.
RotateArgs_HalfTurnsByOne ==
    [m \in FaceMoveKeys |->
        CASE m = <<"F">>      -> <<0, 0, -1>>
          [] m = <<"F", "2">> -> <<0, 0, -1>>
          [] m = <<"F", "'">> -> <<0, 0,  1>>
          [] m = <<"B">>      -> <<0, 2,  1>>
          [] m = <<"B", "2">> -> <<0, 2,  1>>
          [] m = <<"B", "'">> -> <<0, 2, -1>>
          [] m = <<"U">>      -> <<1, 0, -1>>
          [] m = <<"U", "2">> -> <<1, 0, -1>>
          [] m = <<"U", "'">> -> <<1, 0,  1>>
          [] m = <<"D">>      -> <<1, 2,  1>>
          [] m = <<"D", "2">> -> <<1, 2,  1>>
          [] m = <<"D", "'">> -> <<1, 2, -1>>
          [] m = <<"L">>      -> <<2, 0, -1>>
          [] m = <<"L", "2">> -> <<2, 0, -1>>
          [] m = <<"L", "'">> -> <<2, 0,  1>>
          [] m = <<"R">>      -> <<2, 2,  1>>
          [] m = <<"R", "2">> -> <<2, 2,  1>>
          [] m = <<"R", "'">> -> <<2, 2, -1>>]

\* The arguments (perspective, face_idx, direction) each token function
\* __F .. __r hands to __rotate_face.
RotateArgs ==
    [m \in FaceMoveKeys |->
        CASE m = <<"F">>      -> <<0, 0, -1>>
          [] m = <<"F", "2">> -> <<0, 0, -2>>
          [] m = <<"F", "'">> -> <<0, 0,  1>>
          [] m = <<"B">>      -> <<0, 2,  1>>
          [] m = <<"B", "2">> -> <<0, 2,  2>>
          [] m = <<"B", "'">> -> <<0, 2, -1>>
          [] m = <<"U">>      -> <<1, 0, -1>>
          [] m = <<"U", "2">> -> <<1, 0, -2>>
          [] m = <<"U", "'">> -> <<1, 0,  1>>
          [] m = <<"D">>      -> <<1, 2,  1>>
          [] m = <<"D", "2">> -> <<1, 2,  2>>
          [] m = <<"D", "'">> -> <<1, 2, -1>>
          [] m = <<"L">>      -> <<2, 0, -1>>
          [] m = <<"L", "2">> -> <<2, 0, -2>>
          [] m = <<"L", "'">> -> <<2, 0,  1>>
          [] m = <<"R">>      -> <<2, 2,  1>>
          [] m = <<"R", "2">> -> <<2, 2,  2>>
          [] m = <<"R", "'">> -> <<2, 2, -1>>]

\* move_vs_direction_map: the direction letter of the turned face.
move_vs_direction_map ==
    [m \in FaceMoveKeys |->
        CASE m[1] = "R" -> "X" [] m[1] = "L" -> "x"
          [] m[1] = "B" -> "Y" [] m[1] = "F" -> "y"
          [] m[1] = "U" -> "Z" [] m[1] = "D" -> "z"]

\* corner_move_vs_facelet_swap_map with the upper-case letters of
\* move_vs_direction_map for the positive faces.
corner_move_vs_facelet_swap_map_UpperCase ==
    [m \in MoveKeys |->
        CASE m[1] = "L" -> "x" [] m[1] = "R" -> "X"
          [] m[1] = "F" -> "y" [] m[1] = "B" -> "Y"
          [] m[1] = "D" -> "z" [] m[1] = "U" -> "Z"
          [] m[1] = "N" -> "x"]

\* corner_move_vs_facelet_swap_map[move][1]: the lower-case letter of the
\* turned axis.
corner_move_vs_facelet_swap_map ==
    [m \in MoveKeys |->
        CASE m[1] \in {"L", "R"} -> "x"
          [] m[1] \in {"F", "B"} -> "y"
          [] m[1] \in {"U", "D"} -> "z"
          [] m[1] = "N"          -> "x"]

------------------------------------------------------------------------------
\* numpy's rot90 as a re-indexing: the element found at index triple p of
\* np.rot90(a, k, axes=(a1, a2)) is the element of a at Rot90Source(p, k, a1, a2).
\* Axes are numbered from 0 as in numpy; tuples are indexed from 1.

SetAxes(p, a1, v1, a2, v2) ==
    [n \in 1..3 |-> IF n = a1 + 1 THEN v1 ELSE IF n = a2 + 1 THEN v2 ELSE p[n]]

AsSlot(f) == <<f[1], f[2], f[3]>>

\* Rot90Source that turns the other way round.
Rot90Source_OtherWay(p, k, a1, a2) ==
    LET kk == k % 4
        x  == p[a1 + 1]
        y  == p[a2 + 1]
    IN  CASE kk = 0 -> p
          [] kk = 3 -> AsSlot(SetAxes(p, a1, y, a2, 2 - x))
          [] kk = 2 -> AsSlot(SetAxes(p, a1, 2 - x, a2, 2 - y))
          [] kk = 1 -> AsSlot(SetAxes(p, a1, 2 - y, a2, x))

Rot90Source(p, k, a1, a2) ==
    LET kk == k % 4
        x  == p[a1 + 1]
        y  == p[a2 + 1]
    IN  CASE kk = 0 -> p
          [] kk = 1 -> AsSlot(SetAxes(p, a1, y, a2, 2 - x))
          [] kk = 2 -> AsSlot(SetAxes(p, a1, 2 - x, a2, 2 - y))
          [] kk = 3 -> AsSlot(SetAxes(p, a1, 2 - y, a2, x))

\* change_perspective(cube, perspective, direction)
change_perspective(cube, perspective, direction) ==
    IF perspective = 0 THEN cube
    ELSE [s \in Slots |-> cube[Position(Rot90Source(Coord(s), direction, 0, perspective))]]

\* RotateLayer that turns every layer, not only the one at face_idx.
RotateLayer_EveryLayer(cube, face_idx, direction) ==
    [s \in Slots |-> cube[Position(Rot90Source(Coord(s), direction, 1, 2))]]

\* cube[face_idx] = np.rot90(cube[face_idx], k=direction, axes=(0, 1)): axes
\* 0 and 1 of the layer are axes 1 and 2 of the cube.
RotateLayer(cube, face_idx, direction) ==
    [s \in Slots |-> IF Coord(s)[1] = face_idx
                     THEN cube[Position(Rot90Source(Coord(s), direction, 1, 2))]
                     ELSE cube[s]]

\* rotate_face that changes the perspective a second time instead of
\* restoring it.
rotate_face_NoRestore(cube, perspective, face_idx, direction) ==
    change_perspective(
        RotateLayer(change_perspective(cube, perspective, -1), face_idx, direction),
        perspective, -1)

\* __rotate_face applied to one of the three arrays.
rotate_face(cube, perspective, face_idx, direction) ==
    change_perspective(
        RotateLayer(change_perspective(cube, perspective, -1), face_idx, direction),
        perspective, 1)

\* The re-indexing __rotate_face performs for each token, computed once: the
\* array after the token holds at slot p what it held at face_source[m][p].
face_source ==
    [m \in MoveKeys |->
        IF m = NoOp THEN [p \in Slots |-> p]
        ELSE rotate_face([p \in Slots |-> p], RotateArgs[m][1], RotateArgs[m][2],
                         RotateArgs[m][3])]

\* Turn as an in-place loop that reads slots it has already overwritten.
Turn_ReadsOverwritten(cube, m) ==
    [p \in Slots |->
        cube[IF face_source[m][p] < p THEN face_source[m][face_source[m][p]]
             ELSE face_source[m][p]]]

\* self.move_map[move]() on one array.
Turn(cube, m) == [p \in Slots |-> cube[face_source[m][p]]]

------------------------------------------------------------------------------
\* The lookup tables the tracker loads from JSON (the files and their
\* generator are not part of the sources; they are modelled from their
\* description: movements[move][slot] is the slot a piece at slot ends up in,
\* edge_distances[(home, slot)] the minimal number of tokens that carries an
\* edge from home to slot).

movements ==
    [m \in MoveKeys |-> [s \in Slots |-> CHOOSE t \in Slots : face_source[m][t] = s]]

RECURSIVE ReachWithin(_, _)
ReachWithin(h, n) ==
    IF n = 0 THEN {h}
    ELSE LET r == ReachWithin(h, n - 1)
         IN  r \cup {movements[m][s] : m \in MoveKeys, s \in r}

edge_distances ==
    [pr \in {<<h, s>> : h \in EdgeSlots, s \in EdgeSlots} |->
        CHOOSE n \in 0..Cardinality(EdgeSlots) :
            /\ pr[2] \in ReachWithin(pr[1], n)
            /\ n = 0 \/ pr[2] \notin ReachWithin(pr[1], n - 1)]

------------------------------------------------------------------------------
\* Python's str.lower(), str.upper() and str.isupper() on one character.

LowerCase(c) ==
    CASE c = "X" -> "x" [] c = "Y" -> "y" [] c = "Z" -> "z" [] c = "C" -> "c"
      [] OTHER -> c

UpperCase(c) ==
    CASE c = "x" -> "X" [] c = "y" -> "Y" [] c = "z" -> "Z"
      [] c = "g" -> "G" [] c = "b" -> "B" [] c = "c" -> "C"
      [] OTHER -> c

IsUpper(c) == c \in {"X", "Y", "Z", "C", "G", "B"}

\* SwapCase that lower-cases whatever it is given.
SwapCase_AlwaysLower(c) == LowerCase(c)

SwapCase(c) == IF IsUpper(c) THEN LowerCase(c) ELSE UpperCase(c)

\* The least index of seq whose element satisfies Test, or Len(seq) + 1.
FirstIndex(seq, Test(_)) ==
    IF \E n \in 1..Len(seq) : Test(seq[n])
    THEN CHOOSE n \in 1..Len(seq) : Test(seq[n]) /\ \A k \in 1..(n - 1) : ~Test(seq[k])
    ELSE Len(seq) + 1

\* The last element of seq that satisfies Test, or dflt when there is none:
\* the value a variable holds after "for j in seq: if test(j): v = j".
LastMatch(seq, Test(_), dflt) ==
    IF \E n \in 1..Len(seq) : Test(seq[n])
    THEN seq[CHOOSE n \in 1..Len(seq) : Test(seq[n]) /\ \A k \in (n + 1)..Len(seq) : ~Test(seq[k])]
    ELSE dflt

\* remove that leaves the list as it is.
remove_Nothing(lst, item) == lst

\* remove(lst, item)
remove(lst, item) == SelectSeq(lst, LAMBDA x : x # item)

\* IsQuarter that forgets the counter-clockwise tokens.
IsQuarter_UnprimedOnly(m) == Len(m) = 1

\* IsQuarter that takes every token for a quarter turn.
IsQuarter_EveryToken(m) == TRUE

IsQuarter(m) == Len(m) = 1 \/ m[2] = "'"

------------------------------------------------------------------------------
\* __update_orientations_for_solver: the edge Good/Bad rule.

\* [edge for edge in self.edge_positions if edge != self.movements[move][edge]]
\* and the same list of corners, for every token.
MovedEdges == [m \in MoveKeys |-> SelectSeq(edge_positions, LAMBDA e : e # movements[m][e])]

\* MovedCorners without the filter on the movement table.
MovedCorners_Unfiltered == [m \in MoveKeys |-> corner_positions]

MovedCorners == [m \in MoveKeys |-> SelectSeq(corner_positions, LAMBDA c : c # movements[m][c])]

\* The dictionary lookups of the edge rule raise KeyError on a missing key.
EdgeKeyMissing(ids, m, e) ==
    LET piece_initial_position == InitialPositionOf[ids[e]]
    IN  \/ <<piece_initial_position, e>> \notin DOMAIN edge_distances
        \/ <<piece_initial_position, movements[m][e]>> \notin DOMAIN edge_distances

\* EdgeFlips with "<=" written for "==".
EdgeFlips_LessOrEqual(ids, m, e) ==
    LET piece_initial_position == InitialPositionOf[ids[e]]
    IN  edge_distances[<<piece_initial_position, e>>]
          <= edge_distances[<<piece_initial_position, movements[m][e]>>]

\* EdgeFlips that flips for the clockwise tokens only.
EdgeFlips_ClockwiseOnly(ids, m, e) ==
    LET piece_initial_position == InitialPositionOf[ids[e]]
    IN  /\ Len(m) = 1
        /\ edge_distances[<<piece_initial_position, e>>]
              = edge_distances[<<piece_initial_position, movements[m][e]>>]

EdgeFlips(ids, m, e) ==
    LET piece_initial_position == InitialPositionOf[ids[e]]
    IN  edge_distances[<<piece_initial_position, e>>]
          = edge_distances[<<piece_initial_position, movements[m][e]>>]

\* The index in the list of moved edges at which the loop raises KeyError,
\* or its length plus one when it runs to the end.
SolverStop(ids, m) == FirstIndex(MovedEdges[m], LAMBDA e : EdgeKeyMissing(ids, m, e))

\* SolverFlags that writes the flags in upper case.
SolverFlags_UpperCase(ids, sol, m, done) ==
    [p \in Slots |->
        IF p \in done /\ EdgeFlips(ids, m, p)
        THEN (IF sol[p] = "b" THEN "G" ELSE "B")
        ELSE sol[p]]

\* The flags after the loop has handled the edges in done.
SolverFlags(ids, sol, m, done) ==
    [p \in Slots |->
        IF p \in done /\ EdgeFlips(ids, m, p)
        THEN (IF sol[p] = "b" THEN "g" ELSE "b")
        ELSE sol[p]]

SolverOutcome(ids, sol, m, stop) ==
    [sol |-> SolverFlags(ids, sol, m, {MovedEdges[m][n] : n \in 1..(stop - 1)}),
     exc |-> IF stop <= Len(MovedEdges[m]) THEN "KeyError" ELSE "none"]

\* self.movements[move][edge] and self.edge_distances[...] raise TypeError
\* when the table is None: the first in the list comprehension, the second
\* at the first moved edge, both before any flag is written.
SolverTableMissing(m) ==
    \/ "movements" \notin loaded_tables
    \/ "edge_distances" \notin loaded_tables /\ MovedEdges[m] # <<>>

\* Result: the flags after the loop, and whether it raised. The loop runs
\* over the moved edges in order and stops at the first missing key.
update_orientations_for_solver(ids, sol, m) ==
    IF SolverTableMissing(m)
    THEN [sol |-> sol, exc |-> "TypeError"]
    ELSE SolverOutcome(ids, sol, m, SolverStop(ids, m))

------------------------------------------------------------------------------
\* __update_orientations_for_visualizer: the facelet-direction labels.

\* EdgeRelabel whose quarter-turn branch keeps the facelet's character.
EdgeRelabel_QuarterKeeps(current_orientation, m, edge_initial_orientation_at_destination) ==
    LET d == move_vs_direction_map[m]
    IN  [facelet \in 1..Len(current_orientation) |->
            LET facelet_id == current_orientation[facelet]
            IN  IF facelet_id = d \/ IsQuarter(m) THEN facelet_id
                ELSE SwapCase(facelet_id)]

\* The edge loop body: the new label of the edge at a moved slot, given the
\* solved label of its destination.
EdgeRelabel(current_orientation, m, edge_initial_orientation_at_destination) ==
    LET d == move_vs_direction_map[m]
    IN  [facelet \in 1..Len(current_orientation) |->
            LET facelet_id == current_orientation[facelet]
            IN  IF facelet_id = d THEN facelet_id
                ELSE IF IsQuarter(m)
                     THEN LastMatch(edge_initial_orientation_at_destination,
                                    LAMBDA x : x # d, facelet_id)
                     ELSE SwapCase(facelet_id)]

\* ''.join(current_orientation).lower().index(reference), counted from 1;
\* Len + 1 when str.index would raise ValueError.
ConstantFacelet(current_orientation, m) ==
    FirstIndex(current_orientation,
               LAMBDA c : LowerCase(c) = corner_move_vs_facelet_swap_map[m])

\* The corner loop body raises ValueError when the label does not name the
\* turned axis and IndexError when the label has fewer than three characters.
CornerRaises(current_orientation, m) ==
    IF ConstantFacelet(current_orientation, m) > Len(current_orientation)
    THEN "ValueError"
    ELSE IF Len(current_orientation) < 3 THEN "IndexError"
    ELSE "none"

\* CornerRelabel that compares the letters without lower-casing them.
CornerRelabel_CaseSensitive(current_orientation, m, corner_initial_orientation_at_destination) ==
    LET corner_constant_facelet == ConstantFacelet(current_orientation, m)
        corner_constant_facelet_id == current_orientation[corner_constant_facelet]
        corner_facelet_ids_to_swap_at_destination ==
            remove(corner_initial_orientation_at_destination, corner_constant_facelet_id)
    IN  [i \in 1..Len(current_orientation) |->
            IF i = corner_constant_facelet \/ i > 3 THEN current_orientation[i]
            ELSE IF IsQuarter(m)
                 THEN LastMatch(corner_facelet_ids_to_swap_at_destination,
                                LAMBDA j : current_orientation[i] # j,
                                current_orientation[i])
                 ELSE SwapCase(current_orientation[i])]

\* CornerRelabel that takes the destination's letter of the same axis.
CornerRelabel_KeepsAxis(current_orientation, m, corner_initial_orientation_at_destination) ==
    LET corner_constant_facelet == ConstantFacelet(current_orientation, m)
        corner_constant_facelet_id == current_orientation[corner_constant_facelet]
        corner_facelet_ids_to_swap_at_destination ==
            remove(corner_initial_orientation_at_destination, corner_constant_facelet_id)
    IN  [i \in 1..Len(current_orientation) |->
            IF i = corner_constant_facelet \/ i > 3 THEN current_orientation[i]
            ELSE IF IsQuarter(m)
                 THEN LastMatch(corner_facelet_ids_to_swap_at_destination,
                                LAMBDA j : LowerCase(current_orientation[i]) = LowerCase(j),
                                current_orientation[i])
                 ELSE SwapCase(current_orientation[i])]

CornerRelabel(current_orientation, m, corner_initial_orientation_at_destination) ==
    LET corner_constant_facelet == ConstantFacelet(current_orientation, m)
        corner_constant_facelet_id == current_orientation[corner_constant_facelet]
        corner_facelet_ids_to_swap_at_destination ==
            remove(corner_initial_orientation_at_destination, corner_constant_facelet_id)
    IN  [i \in 1..Len(current_orientation) |->
            IF i = corner_constant_facelet \/ i > 3 THEN current_orientation[i]
            ELSE IF IsQuarter(m)
                 THEN LastMatch(corner_facelet_ids_to_swap_at_destination,
                                LAMBDA j : LowerCase(current_orientation[i]) # LowerCase(j),
                                current_orientation[i])
                 ELSE SwapCase(current_orientation[i])]

\* The index in the list of moved corners at which the corner loop raises,
\* or its length plus one when it runs to the end.
VisualizerStop(vis, m) ==
    FirstIndex(MovedCorners[m], LAMBDA c : CornerRaises(vis[c], m) # "none")

\* The labels after the edge loop and after the corner loop has handled
\* the corners in done.
VisualizerLabels(vis, m, movedE, done) ==
    [p \in Slots |->
        IF p \in movedE
        THEN EdgeRelabel(vis[p], m,
                piece_initial_orientations_for_visualizer[movements[m][p]])
        ELSE IF p \in done
        THEN CornerRelabel(vis[p], m,
                piece_initial_orientations_for_visualizer[movements[m][p]])
        ELSE vis[p]]

VisualizerOutcome(vis, m, stop) ==
    [vis |-> VisualizerLabels(vis, m, SeqRange(MovedEdges[m]),
                              {MovedCorners[m][n] : n \in 1..(stop - 1)}),
     exc |-> IF stop <= Len(MovedCorners[m])
             THEN CornerRaises(vis[MovedCorners[m][stop]], m)
             ELSE "none"]

\* Result: the labels after both loops, and the exception if one was raised.
\* The edge loop runs to its end; the corner loop stops at the first corner
\* whose body raises.
update_orientations_for_visualizer(vis, m) ==
    VisualizerOutcome(vis, m, VisualizerStop(vis, m))

------------------------------------------------------------------------------
\* The body of the "for move in moves_split" loop of apply_moves, on a
\* tracker value st = [ids, sol, vis, hist, exc]: append to the history,
\* update the flags, update the labels, rotate the three arrays. An
\* exception leaves what was written before it.

\* AfterVisualizer that puts the token at the front of the history.
AfterVisualizer_InsertsAtFront(st, move, s, v) ==
    IF v.exc # "none"
    THEN [ids |-> st.ids, sol |-> s.sol, vis |-> v.vis,
          hist |-> <<move>> \o st.hist, exc |-> v.exc]
    ELSE [ids  |-> Turn(st.ids, move),
          sol  |-> Turn(s.sol, move),
          vis  |-> Turn(v.vis, move),
          hist |-> <<move>> \o st.hist,
          exc  |-> "none"]

\* AfterVisualizer that rotates the grid and the labels but not the flags.
AfterVisualizer_FlagsStay(st, move, s, v) ==
    IF v.exc # "none"
    THEN [ids |-> st.ids, sol |-> s.sol, vis |-> v.vis,
          hist |-> Append(st.hist, move), exc |-> v.exc]
    ELSE [ids  |-> Turn(st.ids, move),
          sol  |-> s.sol,
          vis  |-> Turn(v.vis, move),
          hist |-> Append(st.hist, move),
          exc  |-> "none"]

AfterVisualizer(st, move, s, v) ==
    IF v.exc # "none"
    THEN [ids |-> st.ids, sol |-> s.sol, vis |-> v.vis,
          hist |-> Append(st.hist, move), exc |-> v.exc]
    ELSE [ids  |-> Turn(st.ids, move),
          sol  |-> Turn(s.sol, move),
          vis  |-> Turn(v.vis, move),
          hist |-> Append(st.hist, move),
          exc  |-> "none"]

AfterSolver(st, move, s) ==
    IF s.exc # "none"
    THEN [ids |-> st.ids, sol |-> s.sol, vis |-> st.vis,
          hist |-> Append(st.hist, move), exc |-> s.exc]
    ELSE AfterVisualizer(st, move, s, update_orientations_for_visualizer(st.vis, move))

ApplyToken(st, move) ==
    AfterSolver(st, move, update_orientations_for_solver(st.ids, st.sol, move))

RECURSIVE ApplyTokens(_, _)
ApplyTokens(st, moves) ==
    IF moves = <<>> \/ st.exc # "none" THEN st
    ELSE ApplyTokens(ApplyToken(st, Head(moves)), Tail(moves))

------------------------------------------------------------------------------
\* apply_moves.

\* Tokenize that advances by two after a one-character token.
RECURSIVE Tokenize_SkipsAfterSingle(_, _, _)
Tokenize_SkipsAfterSingle(move_sequence, idx, moves_split) ==
    IF idx <= Len(move_sequence) - 2
       /\ SubSeq(move_sequence, idx + 1, idx + 2) \in MoveKeys
    THEN LET split == Append(moves_split, SubSeq(move_sequence, idx + 1, idx + 2))
         IN  IF idx + 2 >= Len(move_sequence)
             THEN [exc |-> "none", idx |-> idx + 2, moves_split |-> split]
             ELSE Tokenize_SkipsAfterSingle(move_sequence, idx + 2, split)
    ELSE IF idx >= Len(move_sequence)
    THEN [exc |-> "IndexError", idx |-> idx, moves_split |-> moves_split]
    ELSE IF <<move_sequence[idx + 1]>> \in MoveKeys
    THEN LET split == Append(moves_split, <<move_sequence[idx + 1]>>)
         IN  IF idx + 2 >= Len(move_sequence)
             THEN [exc |-> "none", idx |-> idx + 2, moves_split |-> split]
             ELSE Tokenize_SkipsAfterSingle(move_sequence, idx + 2, split)
    ELSE [exc |-> "ValueError", idx |-> idx, moves_split |-> moves_split]

\* Tokenize that tries the one-character token before the two-character one.
RECURSIVE Tokenize_OneCharacterFirst(_, _, _)
Tokenize_OneCharacterFirst(move_sequence, idx, moves_split) ==
    IF idx >= Len(move_sequence)
    THEN [exc |-> "IndexError", idx |-> idx, moves_split |-> moves_split]
    ELSE IF <<move_sequence[idx + 1]>> \in MoveKeys
    THEN LET split == Append(moves_split, <<move_sequence[idx + 1]>>)
         IN  IF idx + 1 >= Len(move_sequence)
             THEN [exc |-> "none", idx |-> idx + 1, moves_split |-> split]
             ELSE Tokenize_OneCharacterFirst(move_sequence, idx + 1, split)
    ELSE IF idx <= Len(move_sequence) - 2
            /\ SubSeq(move_sequence, idx + 1, idx + 2) \in MoveKeys
    THEN LET split == Append(moves_split, SubSeq(move_sequence, idx + 1, idx + 2))
         IN  IF idx + 2 >= Len(move_sequence)
             THEN [exc |-> "none", idx |-> idx + 2, moves_split |-> split]
             ELSE Tokenize_OneCharacterFirst(move_sequence, idx + 2, split)
    ELSE [exc |-> "ValueError", idx |-> idx, moves_split |-> moves_split]

\* Tokenize that reports the number of tokens split so far as the index.
RECURSIVE Tokenize_ReportsTokenCount(_, _, _)
Tokenize_ReportsTokenCount(move_sequence, idx, moves_split) ==
    IF idx <= Len(move_sequence) - 2
       /\ SubSeq(move_sequence, idx + 1, idx + 2) \in MoveKeys
    THEN LET split == Append(moves_split, SubSeq(move_sequence, idx + 1, idx + 2))
         IN  IF idx + 2 >= Len(move_sequence)
             THEN [exc |-> "none", idx |-> idx + 2, moves_split |-> split]
             ELSE Tokenize_ReportsTokenCount(move_sequence, idx + 2, split)
    ELSE IF idx >= Len(move_sequence)
    THEN [exc |-> "IndexError", idx |-> idx, moves_split |-> moves_split]
    ELSE IF <<move_sequence[idx + 1]>> \in MoveKeys
    THEN LET split == Append(moves_split, <<move_sequence[idx + 1]>>)
         IN  IF idx + 1 >= Len(move_sequence)
             THEN [exc |-> "none", idx |-> idx + 1, moves_split |-> split]
             ELSE Tokenize_ReportsTokenCount(move_sequence, idx + 1, split)
    ELSE [exc |-> "ValueError", idx |-> Len(moves_split), moves_split |-> moves_split]

\* The "while True" tokenizer loop. idx counts from 0 as in the source.
\* move_sequence[idx] raises IndexError when idx is past the end, which the
\* loop reaches only for the empty string.
RECURSIVE Tokenize(_, _, _)
Tokenize(move_sequence, idx, moves_split) ==
    IF idx <= Len(move_sequence) - 2
       /\ SubSeq(move_sequence, idx + 1, idx + 2) \in MoveKeys
    THEN LET split == Append(moves_split, SubSeq(move_sequence, idx + 1, idx + 2))
         IN  IF idx + 2 >= Len(move_sequence)
             THEN [exc |-> "none", idx |-> idx + 2, moves_split |-> split]
             ELSE Tokenize(move_sequence, idx + 2, split)
    ELSE IF idx >= Len(move_sequence)
    THEN [exc |-> "IndexError", idx |-> idx, moves_split |-> moves_split]
    ELSE IF <<move_sequence[idx + 1]>> \in MoveKeys
    THEN LET split == Append(moves_split, <<move_sequence[idx + 1]>>)
         IN  IF idx + 1 >= Len(move_sequence)
             THEN [exc |-> "none", idx |-> idx + 1, moves_split |-> split]
             ELSE Tokenize(move_sequence, idx + 1, split)
    ELSE [exc |-> "ValueError", idx |-> idx, moves_split |-> moves_split]

\* The result of a call: the tracker after it, the exception it raised and
\* the index an invalid-entry error reports (-1 otherwise).
AfterLoop(r) == [st |-> [r EXCEPT !.exc = "none"], exc |-> r.exc, idx |-> -1]

\* AfterTokenize whose tokenizer loop has already appended the tokens it
\* split to the history when it raises.
AfterTokenize_RecordsWhileSplitting(st, t) ==
    IF t.exc # "none"
    THEN [st |-> [st EXCEPT !.hist = st.hist \o t.moves_split], exc |-> t.exc,
          idx |-> IF t.exc = "ValueError" THEN t.idx ELSE -1]
    ELSE AfterLoop(ApplyTokens(st, t.moves_split))

AfterTokenize(st, t) ==
    IF t.exc # "none"
    THEN [st |-> st, exc |-> t.exc, idx |-> IF t.exc = "ValueError" THEN t.idx ELSE -1]
    ELSE AfterLoop(ApplyTokens(st, t.moves_split))

\* An argument of apply_moves: is_str is isinstance(move_sequence, str),
\* chars the characters of the string (of the joined tokens of a list).
apply_moves(st, arg) ==
    IF ~arg.is_str
    THEN [st |-> st, exc |-> "ValueError", idx |-> -1]
    ELSE AfterTokenize(st, Tokenize(arg.chars, 0, <<>>))

------------------------------------------------------------------------------
\* The tracker as a state machine.

\* The tracker value held by the variables.
Tracker ==
    [ids  |-> piece_current_ids_at_positions,
     sol  |-> piece_current_orientations_for_solver,
     vis  |-> piece_current_orientations_for_visualizer,
     hist |-> move_history,
     exc  |-> "none"]

RECURSIVE Concat(_)
Concat(seqs) == IF seqs = <<>> THEN <<>> ELSE Head(seqs) \o Concat(Tail(seqs))

\* R' D' R D R' D' R D
CommutatorA == << <<"R", "'">>, <<"D", "'">>, <<"R">>, <<"D">>,
                  <<"R", "'">>, <<"D", "'">>, <<"R">>, <<"D">> >>

\* D' R' D R D' R' D R
CommutatorAInverse == << <<"D", "'">>, <<"R", "'">>, <<"D">>, <<"R">>,
                         <<"D", "'">>, <<"R", "'">>, <<"D">>, <<"R">> >>

\* A U A^-1 U'
Commutator == CommutatorA \o << <<"U">> >> \o CommutatorAInverse \o << <<"U", "'">> >>

\* The single-token strings the callers of the model use: a token of every
\* face, and for the front face the three kinds of turn.
CalledTokens ==
    {Quarter("F"), Prime("F"), Half("F"), Quarter("U"), Half("U"), Prime("R"),
     Quarter("L"), Half("B"), Prime("D"), NoOp}

\* The arguments the callers of the model hand to apply_moves: the single
\* tokens, the corner-twisting commutator, a string with an invalid
\* character, the empty string and a list of tokens.
Arguments ==
    {[is_str |-> TRUE, chars |-> m] : m \in CalledTokens}
      \cup {[is_str |-> TRUE, chars |-> Concat(Commutator)],
            [is_str |-> TRUE, chars |-> <<"R", "2", "X">>],
            [is_str |-> TRUE, chars |-> <<>>],
            [is_str |-> FALSE, chars |-> <<"R", "U">>]}

\* Python's None where a reference to an object is expected.
NoAddress == 0

\* The attributes of the class CubeBase before initialize has run:
\* tables = None, and nothing else assigned yet.
Uninitialized ==
    [tables                                    |-> NoAddress,
     piece_initial_ids_at_positions            |-> NoAddress,
     piece_initial_orientations_for_solver     |-> NoAddress,
     piece_initial_orientations_for_visualizer |-> NoAddress,
     edge_positions   |-> <<>>,
     corner_positions |-> <<>>,
     edge_ids         |-> <<>>,
     corner_ids       |-> <<>>]

\* No read accessor has been called yet.
NotCalled == [call |-> "none", arg |-> -1, value |-> -1]

\* The keys of the dictionary _load_tables_from_json returns.
TableNames == {"edge_distances", "corner_distances", "movements"}

\* CubeTracker.__init__ on a class whose load left the tables of loaded
\* with a value and the others None.
Construct(loaded) ==
    /\ piece_current_ids_at_positions = piece_initial_ids_at_positions
    /\ piece_current_orientations_for_solver = piece_initial_orientations_for_solver
    /\ piece_current_orientations_for_visualizer = piece_initial_orientations_for_visualizer
    /\ move_history = <<>>
    /\ raised = <<"none", -1>>
    /\ calls = 0
    /\ loaded_tables = loaded
    /\ pc = "idle"
    /\ call_move_sequence = [is_str |-> TRUE, chars |-> <<>>]
    /\ call_moves_split = <<>>
    /\ position = 0
    /\ call_idx = 0
    /\ returned = NotCalled
    /\ heap = <<>>
    /\ class_attributes = Uninitialized
    /\ trackers = <<>>

\* CubeTracker.__init__ with the three table files loaded.
Init == Construct(TableNames)

\* The tracker's fields after a call with result r.
Publish(r) ==
    /\ piece_current_ids_at_positions' = r.st.ids
    /\ piece_current_orientations_for_solver' = r.st.sol
    /\ piece_current_orientations_for_visualizer' = r.st.vis
    /\ move_history' = r.st.hist
    /\ raised' = <<r.exc, r.idx>>

\* One call tracker.apply_moves(arg); raised is what the call raised.
ApplyMoves(arg) ==
    /\ calls < MaxCalls
    /\ Publish(apply_moves(Tracker, arg))
    /\ calls' = calls + 1
    /\ UNCHANGED <<loaded_tables, pc, call_move_sequence, call_moves_split, position>>
    /\ UNCHANGED others

Next == \E arg \in Arguments : ApplyMoves(arg)

Spec == Init /\ [][Next]_vars

------------------------------------------------------------------------------
\* apply_moves statement by statement: the tracker as another caller, or a
\* debugger, sees it while a call runs.

\* Number of apply_moves calls made on the tracker, statement by statement.
MaxStepCalls == 2

\* LoopBody with the rotation written before the two updates.
LoopBody_RotatesFirst == <<"append", "rotate", "solver", "visualizer">>

\* The statements of the body of "for move in moves_split", in source order:
\* self.move_history.append(move), self.__update_orientations_for_solver(move),
\* self.__update_orientations_for_visualizer(move), self.move_map[move]().
LoopBody == <<"append", "solver", "visualizer", "rotate">>

\* The token the loop is at.
CurrentMove == call_moves_split[position]

\* Control after the statement at pc has returned normally: the next
\* statement of the body, the first statement for the next token, or the
\* end of the call.
Advance ==
    LET k == CHOOSE n \in 1..Len(LoopBody) : LoopBody[n] = pc
    IN  IF k < Len(LoopBody)
        THEN pc' = LoopBody[k + 1] /\ position' = position
        ELSE /\ position' = position + 1
             /\ pc' = IF position < Len(call_moves_split) THEN LoopBody[1] ELSE "idle"

\* The statement at pc has raised exc: the call ends.
Raise(exc) == pc' = "idle" /\ position' = position /\ raised' = <<exc, -1>>

\* The type check and the tokenizer loop of a call.
Call(arg) ==
    /\ pc = "idle"
    /\ calls < MaxStepCalls
    /\ calls' = calls + 1
    /\ call_move_sequence' = arg
    /\ LET t == Tokenize(arg.chars, 0, <<>>)
       IN  IF ~arg.is_str
           THEN /\ raised' = <<"ValueError", -1>>
                /\ UNCHANGED <<pc, call_moves_split, position>>
           ELSE IF t.exc # "none"
           THEN /\ raised' = <<t.exc, IF t.exc = "ValueError" THEN t.idx ELSE -1>>
                /\ UNCHANGED <<pc, call_moves_split, position>>
           ELSE /\ raised' = <<"none", -1>>
                /\ call_moves_split' = t.moves_split
                /\ position' = 1
                /\ pc' = LoopBody[1]
    /\ UNCHANGED <<piece_current_ids_at_positions, piece_current_orientations_for_solver,
                   piece_current_orientations_for_visualizer, move_history, loaded_tables>>
    /\ UNCHANGED others

\* self.move_history.append(move)
AppendHistory ==
    /\ pc = "append"
    /\ move_history' = Append(move_history, CurrentMove)
    /\ Advance
    /\ UNCHANGED <<piece_current_ids_at_positions, piece_current_orientations_for_solver,
                   piece_current_orientations_for_visualizer, raised, calls,
                   loaded_tables, call_move_sequence, call_moves_split>>
    /\ UNCHANGED others

\* self.__update_orientations_for_solver(move)
UpdateSolver ==
    /\ pc = "solver"
    /\ LET s == update_orientations_for_solver(piece_current_ids_at_positions,
                     piece_current_orientations_for_solver, CurrentMove)
       IN  /\ piece_current_orientations_for_solver' = s.sol
           /\ IF s.exc # "none" THEN Raise(s.exc) ELSE Advance /\ UNCHANGED raised
    /\ UNCHANGED <<piece_current_ids_at_positions, piece_current_orientations_for_visualizer,
                   move_history, calls, loaded_tables, call_move_sequence, call_moves_split>>
    /\ UNCHANGED others

\* self.__update_orientations_for_visualizer(move)
UpdateVisualizer ==
    /\ pc = "visualizer"
    /\ LET v == update_orientations_for_visualizer(
                     piece_current_orientations_for_visualizer, CurrentMove)
       IN  /\ piece_current_orientations_for_visualizer' = v.vis
           /\ IF v.exc # "none" THEN Raise(v.exc) ELSE Advance /\ UNCHANGED raised
    /\ UNCHANGED <<piece_current_ids_at_positions, piece_current_orientations_for_solver,
                   move_history, calls, loaded_tables, call_move_sequence, call_moves_split>>
    /\ UNCHANGED others

\* self.move_map[move]()
RotateFaces ==
    /\ pc = "rotate"
    /\ piece_current_ids_at_positions' = Turn(piece_current_ids_at_positions, CurrentMove)
    /\ piece_current_orientations_for_solver' =
           Turn(piece_current_orientations_for_solver, CurrentMove)
    /\ piece_current_orientations_for_visualizer' =
           Turn(piece_current_orientations_for_visualizer, CurrentMove)
    /\ Advance
    /\ UNCHANGED <<move_history, raised, calls, loaded_tables, call_move_sequence,
                   call_moves_split>>
    /\ UNCHANGED others

StepNext ==
    \/ \E arg \in Arguments : Call(arg)
    \/ AppendHistory
    \/ UpdateSolver
    \/ UpdateVisualizer
    \/ RotateFaces

StepSpec == Init /\ [][StepNext]_vars

------------------------------------------------------------------------------
\* The tracker on a class whose table files may fail to load.

\* The files CubeBase.initialize hands to _load_tables_from_json, by the
\* table each fills.
Filenames ==
    [edge_distances   |-> "edge_primary_distance_table.json",
     corner_distances |-> "corner_primary_distance_table.json",
     movements        |-> "movement_table.json"]

\* _load_tables_from_json: a file that cannot be opened or parsed raises
\* inside the try block, the except branch prints, and the table keeps the
\* value None; the result names the tables that have a value.
load_tables_from_json(readable) == {t \in TableNames : Filenames[t] \in readable}

\* CubeTracker() with any of the three files readable or not.
LoadInit ==
    \E readable \in SUBSET {Filenames[t] : t \in TableNames} :
        Construct(load_tables_from_json(readable))

LoadSpec == LoadInit /\ [][Next]_vars

------------------------------------------------------------------------------
\* apply_moves as a function of its string: a fresh tracker is handed one
\* string over the characters of the tokens and one character of no token.

\* Length of the strings handed to apply_moves.
MaxStringLen == 3

Characters == {"L", "R", "F", "B", "U", "D", "N", "2", "'", "X"}

Strings == UNION {[1..n -> Characters] : n \in 0..MaxStringLen}

\* A fresh tracker and a caller about to call apply_moves on a string.
StringInit ==
    /\ piece_current_ids_at_positions = piece_initial_ids_at_positions
    /\ piece_current_orientations_for_solver = piece_initial_orientations_for_solver
    /\ piece_current_orientations_for_visualizer = piece_initial_orientations_for_visualizer
    /\ move_history = <<>>
    /\ raised = <<"none", -1>>
    /\ calls = 0
    /\ loaded_tables = TableNames
    /\ pc = "called"
    /\ call_move_sequence \in {[is_str |-> TRUE, chars |-> s] : s \in Strings}
    /\ call_moves_split = <<>>
    /\ position = 0
    /\ call_idx = 0
    /\ returned = NotCalled
    /\ heap = <<>>
    /\ class_attributes = Uninitialized
    /\ trackers = <<>>

\* tracker.apply_moves(call_move_sequence)
ApplyString ==
    /\ pc = "called"
    /\ Publish(apply_moves(Tracker, call_move_sequence))
    /\ calls' = calls + 1
    /\ pc' = "idle"
    /\ UNCHANGED <<loaded_tables, call_move_sequence, call_moves_split, position>>
    /\ UNCHANGED others

StringSpec == StringInit /\ [][ApplyString]_vars

------------------------------------------------------------------------------
\* The read accessors, called between calls of apply_moves.

\* get_position_of_piece that searches the solved grid.
get_position_of_piece_InSolvedGrid(ids, piece_id) == InitialPositionOf[piece_id]

\* get_position_of_piece: the three nested loops return at the first slot in
\* scan order that holds piece_id; when no slot does, the function ends
\* without a return statement and the caller gets None (here -1).
get_position_of_piece(ids, piece_id) ==
    LET n == FirstIndex(ScanOrder, LAMBDA p : ids[p] = piece_id)
    IN  IF n <= Len(ScanOrder) THEN ScanOrder[n] ELSE -1

\* get_piece_at_position
get_piece_at_position(ids, at) == ids[at]

\* get_orientation_of_piece: the same scan, returning the element of
\* piece_current_orientations_for_solver at the slot found; None (here the
\* string "None") when no slot holds piece_id.
get_orientation_of_piece(ids, sol, piece_id) ==
    LET n == FirstIndex(ScanOrder, LAMBDA p : ids[p] = piece_id)
    IN  IF n <= Len(ScanOrder) THEN sol[ScanOrder[n]] ELSE "None"

\* The piece ids the callers of the model ask about.
PieceIds == 0..26

\* The strings the callers hand to apply_moves between accessor calls, and
\* on the trackers of a program that builds several: a quarter turn, a half
\* turn and a counter-clockwise turn of three faces, and an invalid string.
SampleArguments ==
    {[is_str |-> TRUE, chars |-> Quarter("F")],
     [is_str |-> TRUE, chars |-> Half("U")],
     [is_str |-> TRUE, chars |-> Prime("R")],
     [is_str |-> TRUE, chars |-> <<"R", "2", "X">>]}

\* An accessor call: nothing is assigned; returned records the call.
Return(call, arg, value) ==
    /\ returned' = [call |-> call, arg |-> arg, value |-> value]
    /\ UNCHANGED <<piece_current_ids_at_positions, piece_current_orientations_for_solver,
                   piece_current_orientations_for_visualizer, move_history, raised,
                   calls, loaded_tables, pc, call_move_sequence, call_moves_split,
                   position, call_idx, heap, class_attributes, trackers>>

GetPositionOfPiece(piece_id) ==
    Return("get_position_of_piece", piece_id,
           get_position_of_piece(piece_current_ids_at_positions, piece_id))

GetPieceAtPosition(at) ==
    Return("get_piece_at_position", at,
           get_piece_at_position(piece_current_ids_at_positions, at))

GetOrientationOfPiece(piece_id) ==
    Return("get_orientation_of_piece", piece_id,
           get_orientation_of_piece(piece_current_ids_at_positions,
                                    piece_current_orientations_for_solver, piece_id))

AccessNext ==
    \/ \E arg \in SampleArguments : ApplyMoves(arg)
    \/ \E piece_id \in PieceIds : GetPositionOfPiece(piece_id)
    \/ \E at \in Slots : GetPieceAtPosition(at)
    \/ \E piece_id \in PieceIds : GetOrientationOfPiece(piece_id)

AccessSpec == Init /\ [][AccessNext]_vars

------------------------------------------------------------------------------
\* A program that builds several trackers. Arrays, lists and dictionaries
\* are objects on a heap and an attribute holds the address of its object,
\* so that two attributes that refer to one object see each other's writes.
\* The single-tracker variables are not used here and keep their initial
\* values, except calls and raised, which count and report the calls made
\* on any tracker.

\* Number of trackers the program builds.
MaxTrackers == 2

\* Number of apply_moves calls the program makes, on any of its trackers.
MaxSharedCalls == 3

\* np.array(...), a list display, json.load: a new object at a new address.
Allocate(h, object) == [heap |-> Append(h, object), address |-> Len(h) + 1]

\* deepcopy that hands back the object it was given.
deepcopy_SameObject(h, address) == [heap |-> h, address |-> address]

\* copy.deepcopy(array)
deepcopy(h, address) == Allocate(h, h[address])

\* The dictionary _load_tables_from_json returns when every file loads, with
\* the two tables the tracker reads (corner_distances is never read).
LoadedTables == [edge_distances |-> edge_distances, movements |-> movements]

\* CubeBase.initialize: the body runs only while tables is None.
initialize(h, cls) ==
    IF cls.tables # NoAddress THEN [heap |-> h, cls |-> cls]
    ELSE LET ids    == Allocate(h, piece_initial_ids_at_positions)
             sol    == Allocate(ids.heap, piece_initial_orientations_for_solver)
             vis    == Allocate(sol.heap, piece_initial_orientations_for_visualizer)
             tables == Allocate(vis.heap, LoadedTables)
         IN  [heap |-> tables.heap,
              cls  |-> [tables                                    |-> tables.address,
                        piece_initial_ids_at_positions            |-> ids.address,
                        piece_initial_orientations_for_solver     |-> sol.address,
                        piece_initial_orientations_for_visualizer |-> vis.address,
                        edge_positions   |-> edge_positions,
                        corner_positions |-> corner_positions,
                        edge_ids         |-> edge_ids,
                        corner_ids       |-> corner_ids]]

\* CubeTracker(): __init__ initializes the class, copies the three solved
\* arrays, makes an empty history, and builds the six face views
\* cube_current_faces_with_ids, which look into the class's id array. The
\* result is the heap, the class and the list of trackers afterwards.
CubeTracker_init(h, cls, ts) ==
    LET i    == initialize(h, cls)
        ids  == deepcopy(i.heap, i.cls.piece_initial_ids_at_positions)
        sol  == deepcopy(ids.heap, i.cls.piece_initial_orientations_for_solver)
        vis  == deepcopy(sol.heap, i.cls.piece_initial_orientations_for_visualizer)
        hist == Allocate(vis.heap, <<>>)
    IN  [heap     |-> hist.heap,
         cls      |-> i.cls,
         trackers |-> Append(ts,
             [piece_current_ids_at_positions            |-> ids.address,
              piece_current_orientations_for_solver     |-> sol.address,
              piece_current_orientations_for_visualizer |-> vis.address,
              move_history                              |-> hist.address,
              cube_current_faces_with_ids |-> i.cls.piece_initial_ids_at_positions])]

\* The program builds one more tracker.
NewTracker ==
    /\ Len(trackers) < MaxTrackers
    /\ LET w == CubeTracker_init(heap, class_attributes, trackers)
       IN  /\ heap' = w.heap
           /\ class_attributes' = w.cls
           /\ trackers' = w.trackers
    /\ UNCHANGED <<piece_current_ids_at_positions, piece_current_orientations_for_solver,
                   piece_current_orientations_for_visualizer, move_history, raised,
                   calls, loaded_tables, pc, call_move_sequence, call_moves_split,
                   position, call_idx, returned>>

\* The value of the tracker self: what its attributes refer to.
TrackerValue(h, self) ==
    [ids  |-> h[self.piece_current_ids_at_positions],
     sol  |-> h[self.piece_current_orientations_for_solver],
     vis  |-> h[self.piece_current_orientations_for_visualizer],
     hist |-> h[self.move_history],
     exc  |-> "none"]

\* The writes of a call on self: the element assignments of the flag and
\* label rules, the layer assignments of __rotate_face (the rot90 results it
\* rebinds the attributes to are views of the same objects) and
\* move_history.append all write into the objects the attributes refer to.
Store(h, self, st) ==
    [a \in 1..Len(h) |->
        IF a = self.move_history THEN st.hist
        ELSE IF a = self.piece_current_orientations_for_visualizer THEN st.vis
        ELSE IF a = self.piece_current_orientations_for_solver THEN st.sol
        ELSE IF a = self.piece_current_ids_at_positions THEN st.ids
        ELSE h[a]]

\* Whether the call with result r on a tracker with history before ran
\* __rotate_face, which rebuilds the face views from the tracker's own grid.
RanRotateFace(before, r) ==
    \E n \in (Len(before) + 1)..Len(r.st.hist) :
        /\ r.st.hist[n] # NoOp
        /\ n < Len(r.st.hist) \/ r.st.exc = "none"

\* trackers[t].apply_moves(arg), by a program that makes at most bound calls.
CallOn(t, arg, bound) ==
    /\ calls < bound
    /\ LET self == trackers[t]
           r    == apply_moves(TrackerValue(heap, self), arg)
       IN  /\ heap' = Store(heap, self, r.st)
           /\ trackers' =
                [trackers EXCEPT ![t].cube_current_faces_with_ids =
                    IF RanRotateFace(heap[self.move_history], r)
                    THEN self.piece_current_ids_at_positions ELSE @]
           /\ raised' = <<r.exc, r.idx>>
    /\ calls' = calls + 1
    /\ UNCHANGED <<piece_current_ids_at_positions, piece_current_orientations_for_solver,
                   piece_current_orientations_for_visualizer, move_history,
                   loaded_tables, pc, call_move_sequence, call_moves_split,
                   position, call_idx, returned, class_attributes>>

ApplyMovesOn(t, arg) == CallOn(t, arg, MaxSharedCalls)

SharedNext ==
    \/ NewTracker
    \/ \E t \in 1..Len(trackers) : \E arg \in SampleArguments : ApplyMovesOn(t, arg)

SharedSpec == Init /\ [][SharedNext]_vars

------------------------------------------------------------------------------
\* Two trackers side by side, each brought from solved to its state by
\* quarter turns, so that two move sequences can be compared by what they
\* reach.

\* Number of apply_moves calls made on the two trackers together.
MaxPairCalls == 4

\* The single quarter-turn strings handed to either tracker.
QuarterArguments ==
    {[is_str |-> TRUE, chars |-> m] :
        m \in {Quarter("F"), Prime("F"), Quarter("B"), Quarter("U")}}

\* a = CubeTracker(); b = CubeTracker(): the program builds its two
\* trackers before it calls either.
NewPairTracker ==
    /\ calls = 0
    /\ Len(trackers) < 2
    /\ LET w == CubeTracker_init(heap, class_attributes, trackers)
       IN  /\ heap' = w.heap
           /\ class_attributes' = w.cls
           /\ trackers' = w.trackers
    /\ UNCHANGED <<piece_current_ids_at_positions, piece_current_orientations_for_solver,
                   piece_current_orientations_for_visualizer, move_history, raised,
                   calls, loaded_tables, pc, call_move_sequence, call_moves_split,
                   position, call_idx, returned>>

QuarterTurnOn(t, arg) == Len(trackers) = 2 /\ CallOn(t, arg, MaxPairCalls)

PairNext ==
    \/ NewPairTracker
    \/ \E t \in 1..Len(trackers) : \E arg \in QuarterArguments : QuarterTurnOn(t, arg)

PairSpec == Init /\ [][PairNext]_vars

------------------------------------------------------------------------------
\* Vocabulary of the properties.

QuarterMoveKeys == {Quarter(X) : X \in FaceLetters} \cup {Prime(X) : X \in FaceLetters}

HalfMoveKeys == {Half(X) : X \in FaceLetters}

\* The designated inverse of a token: X and X' undo each other, X2 and N
\* undo themselves.
InverseMove(m) ==
    IF m = NoOp \/ m \in HalfMoveKeys THEN m
    ELSE IF Len(m) = 1 THEN Prime(m[1]) ELSE Quarter(m[1])

\* The position grid, the edge flags and the facelet labels agree.
SameCube(a, b) == a.ids = b.ids /\ a.sol = b.sol /\ a.vis = b.vis

Repeat(m, n) == [k \in 1..n |-> m]

\* The string made of the tokens of moves.
AsString(moves) == [is_str |-> TRUE, chars |-> Concat(moves)]

IsSolvedGrid == piece_current_ids_at_positions = piece_initial_ids_at_positions

NoException == raised[1] = "none"

\* The outer layer a face letter names: first index 0 is the front, second
\* index 0 the top, third index 0 the left.
FaceLayer(X) ==
    CASE X = "F" -> {p \in Slots : Coord(p)[1] = 0}
      [] X = "B" -> {p \in Slots : Coord(p)[1] = 2}
      [] X = "U" -> {p \in Slots : Coord(p)[2] = 0}
      [] X = "D" -> {p \in Slots : Coord(p)[2] = 2}
      [] X = "L" -> {p \in Slots : Coord(p)[3] = 0}
      [] X = "R" -> {p \in Slots : Coord(p)[3] = 2}

BadEdges(sol) == {e \in EdgeSlots : sol[e] = "b"}

------------------------------------------------------------------------------
\* C1: from every reachable state, for every token m, applying m and then
\* its designated inverse restores the position grid, the edge flags and the
\* facelet labels.
RoundTripRestores(st, m) == SameCube(ApplyTokens(st, <<m, InverseMove(m)>>), st)

C1_MoveThenInverseRestores == \A m \in MoveKeys : RoundTripRestores(Tracker, m)

\* A quarter turn and then its inverse have been applied, and the cube is
\* back at its solved grid, flags and labels.
C1_Witness ==
    /\ Len(move_history) = 2
    /\ move_history[1] \in QuarterMoveKeys
    /\ move_history[2] = InverseMove(move_history[1])
    /\ SameCube(Tracker, [ids |-> piece_initial_ids_at_positions,
                          sol |-> piece_initial_orientations_for_solver,
                          vis |-> piece_initial_orientations_for_visualizer])

\* C2: from every reachable state, the same quarter-turn token four times,
\* or the same half-turn token twice, restores grid, flags and labels.
CycleRestores(st, m, n) == SameCube(ApplyTokens(st, Repeat(m, n)), st)

C2_FaceCyclesRestore ==
    /\ \A m \in QuarterMoveKeys : CycleRestores(Tracker, m, 4)
    /\ \A m \in HalfMoveKeys : CycleRestores(Tracker, m, 2)

\* The same half turn has been applied twice in a row and the flags and
\* labels are back at their solved values.
C2_Witness ==
    /\ Len(move_history) = 2
    /\ move_history[1] \in HalfMoveKeys
    /\ move_history[2] = move_history[1]
    /\ IsSolvedGrid
    /\ piece_current_orientations_for_solver = piece_initial_orientations_for_solver
    /\ piece_current_orientations_for_visualizer = piece_initial_orientations_for_visualizer

\* C3: in every reachable state the number of edge slots flagged 'b' is
\* even.
C3_BadCountAlwaysEven ==
    Cardinality(BadEdges(piece_current_orientations_for_solver)) % 2 = 0

\* The axis a token turns about; N turns about none.
AxisOf(m) ==
    CASE m[1] \in {"L", "R"} -> "x"
      [] m[1] \in {"F", "B"} -> "y"
      [] m[1] \in {"U", "D"} -> "z"
      [] OTHER -> "none"

\* C4: in every reachable state the position grid holds every piece id
\* exactly once.
C4_GridIsBijection ==
    /\ {piece_current_ids_at_positions[p] : p \in Slots} = 0..26
    /\ \A p, q \in Slots :
          piece_current_ids_at_positions[p] = piece_current_ids_at_positions[q] => p = q

\* Two different faces have been turned, so pieces have left their layers.
C4_Witness ==
    /\ Len(move_history) = 2
    /\ AxisOf(move_history[1]) \notin {AxisOf(move_history[2]), "none"}
    /\ AxisOf(move_history[2]) # "none"
    /\ Cardinality({p \in Slots : piece_current_ids_at_positions[p]
                                    # piece_initial_ids_at_positions[p]}) > 12

\* C5: the corner twists sum to 0 mod 3 in every reachable state, and no
\* reachable state has every piece at home with exactly one corner label
\* different from its solved label. The twist of the corner at slot c is the
\* number of clockwise steps (seen from outside the corner) from the slot's
\* up/down face to the face the piece's local z facelet, the third
\* character of its label, is on.
ClockwiseFaces(c) ==
    LET xl == IF Coord(c)[3] = 0 THEN "x" ELSE "X"
        yl == IF Coord(c)[1] = 0 THEN "y" ELSE "Y"
        zl == IF Coord(c)[2] = 0 THEN "Z" ELSE "z"
        mirrored ==
            Cardinality({n \in 1..3 : Coord(c)[n] = (IF n = 3 THEN 0 ELSE 2)}) % 2 = 1
    IN  IF mirrored THEN <<zl, yl, xl>> ELSE <<zl, xl, yl>>

TwistDefined(vis, c) == Len(vis[c]) = 3 /\ vis[c][3] \in SeqRange(ClockwiseFaces(c))

Twist(vis, c) == (CHOOSE n \in 1..3 : ClockwiseFaces(c)[n] = vis[c][3]) - 1

RECURSIVE TwistSum(_, _)
TwistSum(vis, corners) ==
    IF corners = <<>> THEN 0 ELSE Twist(vis, Head(corners)) + TwistSum(vis, Tail(corners))

RelabelledCorners(vis) ==
    {c \in CornerSlots : vis[c] # piece_initial_orientations_for_visualizer[c]}

C5_CornerTwistParity ==
    /\ \A c \in CornerSlots : TwistDefined(piece_current_orientations_for_visualizer, c)
    /\ TwistSum(piece_current_orientations_for_visualizer, corner_positions) % 3 = 0
    /\ ~(IsSolvedGrid
         /\ Cardinality(RelabelledCorners(piece_current_orientations_for_visualizer)) = 1)

\* Every piece is at home and two corners are twisted, one by 1 and one by 2.
C5_Witness ==
    /\ IsSolvedGrid
    /\ \E c1, c2 \in CornerSlots :
          /\ Twist(piece_current_orientations_for_visualizer, c1) = 1
          /\ Twist(piece_current_orientations_for_visualizer, c2) = 2
          /\ RelabelledCorners(piece_current_orientations_for_visualizer) = {c1, c2}

\* C6: from every reachable state a single quarter-turn token changes the
\* occupant of exactly the 8 non-center slots of its face's outer layer and
\* of no other slot.
ChangedSlots(before, after) == {p \in Slots : before[p] # after[p]}

TurnedSlots(m) == FaceLayer(m[1]) \cap (EdgeSlots \cup CornerSlots)

QuarterTurnFrame(st, m) ==
    /\ ChangedSlots(st.ids, ApplyToken(st, m).ids) = TurnedSlots(m)
    /\ Cardinality(TurnedSlots(m)) = 8

C6_QuarterTurnChangesOnlyItsLayer ==
    \A m \in QuarterMoveKeys : QuarterTurnFrame(Tracker, m)

\* One quarter turn has been applied to the solved cube and exactly the 8
\* slots of its layer hold another piece.
C6_Witness ==
    /\ move_history \in {<<m>> : m \in QuarterMoveKeys}
    /\ ChangedSlots(piece_initial_ids_at_positions, piece_current_ids_at_positions)
         = TurnedSlots(move_history[1])

\* C7: for every token and every reachable state, every slot the token
\* does not move, and every slot that is not an edge or corner slot of the
\* turned layer, has the same flag and the same label after the token.
UntouchedKeepLabels(st, m, after) ==
    \A s \in Slots :
        (movements[m][s] = s \/ m = NoOp \/ s \notin TurnedSlots(m))
            => after.sol[s] = st.sol[s] /\ after.vis[s] = st.vis[s]

C7_UnmovedSlotsKeepLabels ==
    \A m \in MoveKeys : UntouchedKeepLabels(Tracker, m, ApplyToken(Tracker, m))

\* The last token applied left alone an edge slot whose label an earlier
\* token had changed.
C7_Witness ==
    /\ Len(move_history) >= 2
    /\ move_history[Len(move_history)] \in FaceMoveKeys
    /\ \E s \in EdgeSlots :
          /\ movements[move_history[Len(move_history)]][s] = s
          /\ piece_current_orientations_for_visualizer[s]
               # piece_initial_orientations_for_visualizer[s]

\* C8: applying the commutator A U A^-1 U' to the solved cube returns
\* normally and ends with the solved position grid, exactly two corner
\* labels different from their solved labels and every edge flag 'g'.
CommutatorResult(st) ==
    /\ st.hist = Commutator
    /\ st.ids = piece_initial_ids_at_positions
    /\ Cardinality(RelabelledCorners(st.vis)) = 2
    /\ \A e \in EdgeSlots : st.sol[e] = "g"

CommutatorOutcome(r) == r.exc = "none" /\ CommutatorResult(r.st)

C8_CommutatorTwistsTwoCorners ==
    /\ move_history = <<>> =>
          CommutatorOutcome(apply_moves(Tracker, AsString(Commutator)))
    /\ move_history = Commutator => CommutatorResult(Tracker)

\* The commutator has been applied to the solved cube.
C8_Witness == move_history = Commutator /\ NoException

\* C9: from every reachable state, applying 'N' any number of times leaves
\* grid, flags and labels unchanged and appends one 'N' per application to
\* the history.
MaxNoOps == 3

NoOpsLeaveState(st, n, r) ==
    /\ r.exc = "none"
    /\ SameCube(r.st, st)
    /\ r.st.hist = st.hist \o Repeat(NoOp, n)

C9_NoOpChangesNothing ==
    \A n \in 1..MaxNoOps :
        NoOpsLeaveState(Tracker, n, apply_moves(Tracker, AsString(Repeat(NoOp, n))))

\* 'N' has been applied to a scrambled cube.
C9_Witness ==
    /\ Len(move_history) = 2
    /\ move_history[2] = NoOp
    /\ ~IsSolvedGrid
    /\ NoException

\* C10: from every reachable state no token raises: the edge-distance
\* lookups find their keys, every moved corner's label names the turned
\* axis, and apply_moves on the token's string, and on the string of the
\* 18-token commutator, returns normally.
TokenDoesNotRaise(st, m) ==
    /\ SolverStop(st.ids, m) > Len(MovedEdges[m])
    /\ VisualizerStop(st.vis, m) > Len(MovedCorners[m])
    /\ apply_moves(st, AsString(<<m>>)).exc = "none"

C10_NoTokenRaises ==
    /\ \A m \in MoveKeys : TokenDoesNotRaise(Tracker, m)
    /\ apply_moves(Tracker, AsString(Commutator)).exc = "none"

\* Tokens of two different axes have been applied without an exception.
C10_Witness ==
    /\ Len(move_history) = 2
    /\ AxisOf(move_history[1]) \notin {AxisOf(move_history[2]), "none"}
    /\ AxisOf(move_history[2]) # "none"
    /\ NoException

------------------------------------------------------------------------------
\* The tracker a fresh CubeTracker() holds, and the tracker reached from it
\* by the complete steps (flags, labels, rotation) of the tokens of history.
SolvedTracker ==
    [ids  |-> piece_initial_ids_at_positions,
     sol  |-> piece_initial_orientations_for_solver,
     vis  |-> piece_initial_orientations_for_visualizer,
     hist |-> <<>>,
     exc  |-> "none"]

Replay(history) == ApplyTokens(SolvedTracker, history)

\* C11: in every state a caller can observe, also after a call that raised,
\* the position grid, the flags and the labels are those of replaying the
\* tokens of move_history, each as a complete step, from the solved state.
C11_StateIsReplayOfHistory == Replay(move_history) = Tracker

\* A call has raised on a cube that earlier calls had scrambled.
C11_Witness ==
    /\ raised[1] = "ValueError"
    /\ Len(move_history) >= 1
    /\ ~IsSolvedGrid

\* The history without its last entry.
Front(history) == SubSeq(history, 1, Len(history) - 1)

\* What the two updates of token m leave of the flags and labels of st.
FlagsUpdated(st, m) == update_orientations_for_solver(st.ids, st.sol, m).sol

LabelsUpdated(st, m) == update_orientations_for_visualizer(st.vis, m).vis

\* C12: while a call runs, the updates of a token find the grid as the
\* complete steps of all earlier tokens left it and the rotation of a token
\* finds both updates of that token done: at the flag update the tracker is
\* the replay of the earlier tokens; at the label update the flags are
\* those the edge rule computes from the grid before the rotation; at the
\* rotation the labels are updated too and the grid is still unrotated;
\* before the next token the tracker is the replay of the whole history.
InOrder(before) ==
    /\ piece_current_ids_at_positions = before.ids
    /\ piece_current_orientations_for_solver =
          IF pc = "solver" THEN before.sol ELSE FlagsUpdated(before, CurrentMove)
    /\ piece_current_orientations_for_visualizer =
          IF pc = "rotate" THEN LabelsUpdated(before, CurrentMove) ELSE before.vis

C12_UpdatesBeforeRotation ==
    /\ pc \in {"solver", "visualizer", "rotate"} => InOrder(Replay(Front(move_history)))
    /\ (pc \in {"idle", "append"} /\ raised[1] = "none") => Replay(move_history) = Tracker

\* The rotation of the second token of a call is about to start, after the
\* first token has moved pieces into the layer the second turns.
C12_Witness ==
    /\ pc = "rotate"
    /\ position = 2
    /\ AxisOf(call_moves_split[1]) # AxisOf(CurrentMove)
    /\ piece_current_orientations_for_visualizer
         # Replay(Front(move_history)).vis

IsPrefix(a, b) == Len(a) <= Len(b) /\ SubSeq(b, 1, Len(a)) = a

\* A call that returns normally leaves the history it found, followed by
\* the tokens of its argument in their order.
AppendsItsTokens(st, arg, r) ==
    r.exc = "none" => r.st.hist = st.hist \o Tokenize(arg.chars, 0, <<>>).moves_split

\* C13: every step leaves the earlier entries of move_history as they were
\* and in place, and from every reachable state a call that returns normally
\* leaves the history followed by the tokens of its argument in order.
C13_HistoryAppendOnly ==
    [][/\ IsPrefix(move_history, move_history')
       /\ \A arg \in Arguments : AppendsItsTokens(Tracker, arg, apply_moves(Tracker, arg))]_vars

\* A second call has returned normally and appended to a history that was
\* not empty.
C13_Witness ==
    /\ calls = 2
    /\ NoException
    /\ Len(move_history) > 18
    /\ SubSeq(move_history, 1, 18) = Commutator

\* The token sequences whose concatenation is the string s.
RECURSIVE Parses(_)
Parses(s) ==
    IF s = <<>> THEN {<<>>}
    ELSE UNION {{<<t>> \o rest : rest \in Parses(SubSeq(s, Len(t) + 1, Len(s)))} :
                   t \in {k \in MoveKeys : IsPrefix(k, s)}}

\* The string a returned call was handed.
Returned == pc = "idle" /\ calls = 1

\* C14: apply_moves on a non-empty string that is the concatenation of
\* valid tokens t1..tn returns normally having applied exactly t1, ..., tn
\* in that order, whatever way the string was put together.
C14_GreedyTokenizerAppliesTokens ==
    (Returned /\ call_move_sequence.chars # <<>>)
        => \A ts \in Parses(call_move_sequence.chars) :
               NoException /\ Replay(ts) = Tracker

\* A string of a two-character token followed by a one-character token
\* has been applied.
C14_Witness ==
    /\ Returned
    /\ NoException
    /\ Len(call_move_sequence.chars) = 3
    /\ Len(move_history) = 2
    /\ Len(move_history[1]) = 2

\* The lengths of the prefixes of s that are concatenations of tokens.
TokenPrefixLengths(s) == {n \in 0..Len(s) : Parses(SubSeq(s, 1, n)) # {}}

Greatest(S) == CHOOSE n \in S : \A k \in S : k <= n

\* Neither the two characters nor the one character at index n (from 0) of
\* s is a token.
NoTokenAt(s, n) ==
    /\ n < Len(s)
    /\ <<s[n + 1]>> \notin MoveKeys
    /\ n + 2 <= Len(s) => SubSeq(s, n + 1, n + 2) \notin MoveKeys

\* C15: apply_moves on a non-empty string that is no concatenation of
\* tokens raises ValueError, and the index it reports is the end of the
\* longest prefix made of tokens, where neither the two-character nor the
\* one-character token matches.
C15_InvalidTokenIndex ==
    (Returned /\ call_move_sequence.chars # <<>> /\ Parses(call_move_sequence.chars) = {})
        => /\ raised = <<"ValueError", Greatest(TokenPrefixLengths(call_move_sequence.chars))>>
           /\ NoTokenAt(call_move_sequence.chars, raised[2])

\* "R2X" has been rejected with index 2.
C15_Witness ==
    /\ Returned
    /\ call_move_sequence.chars = <<"R", "2", "X">>
    /\ raised = <<"ValueError", 2>>

\* C16: when apply_moves raises on an invalid token, the tokens before it
\* in the string have been applied: grid, flags, labels and history are
\* those of replaying exactly these tokens.
C16_TokensBeforeErrorStayApplied ==
    (Returned /\ raised[1] = "ValueError")
        => \A ts \in Parses(SubSeq(call_move_sequence.chars, 1, raised[2])) :
               Replay(ts) = Tracker

\* C17: from every reachable state apply_moves on a list of valid tokens
\* returns what it returns on the string of these tokens.
ListAppliedAsString(st, arg) ==
    apply_moves(st, arg) = apply_moves(st, [arg EXCEPT !.is_str = TRUE])

C17_ListAppliedAsString ==
    \A arg \in Arguments : ~arg.is_str => ListAppliedAsString(Tracker, arg)

\* C18: a tracker exists only with all three tables loaded, and no call of
\* apply_moves raises for a table that failed to load.
C18_MissingTableIsFatal ==
    /\ loaded_tables = TableNames
    /\ raised[1] # "TypeError"

\* The label of a piece whose two facelets are exchanged.
Flipped(label) == [n \in 1..Len(label) |-> label[Len(label) + 1 - n]]

\* Every edge piece in its home slot is flagged 'g' exactly when its label
\* is the solved label of the slot and 'b' exactly when it is the flipped
\* one.
HomeEdgesFlaggedByLabel(st) ==
    \A e \in EdgeSlots :
        st.ids[e] = piece_initial_ids_at_positions[e] =>
            /\ st.sol[e] = "g" <=> st.vis[e] = piece_initial_orientations_for_visualizer[e]
            /\ st.sol[e] = "b" <=>
                  st.vis[e] = Flipped(piece_initial_orientations_for_visualizer[e])

\* C19: in every reachable state, and after any one more token, an edge
\* piece in its home slot is flagged 'g' exactly when it is unflipped and
\* 'b' exactly when it is flipped.
C19_HomeEdgeFlagMatchesLabel ==
    \A m \in MoveKeys : HomeEdgesFlaggedByLabel(ApplyToken(Tracker, m))

\* C20: in every reachable state every edge slot holds an edge piece with
\* a flag 'g' or 'b' and a label of 2 characters, and every corner slot
\* holds a corner piece with the flag '0' and a label of 3 characters.
C20_SlotTypesKeepTheirDomains ==
    /\ \A e \in EdgeSlots :
          /\ piece_current_ids_at_positions[e] \in SeqRange(edge_ids)
          /\ piece_current_orientations_for_solver[e] \in {"g", "b"}
          /\ Len(piece_current_orientations_for_visualizer[e]) = 2
    /\ \A c \in CornerSlots :
          /\ piece_current_ids_at_positions[c] \in SeqRange(corner_ids)
          /\ piece_current_orientations_for_solver[c] = "0"
          /\ Len(piece_current_orientations_for_visualizer[c]) = 3

\* Edges and corners have left their home slots and an edge is flagged 'b'.
C20_Witness ==
    /\ \E e \in EdgeSlots :
          /\ piece_current_ids_at_positions[e] # piece_initial_ids_at_positions[e]
          /\ piece_current_orientations_for_solver[e] = "b"
    /\ \E c \in CornerSlots :
          piece_current_ids_at_positions[c] # piece_initial_ids_at_positions[c]

------------------------------------------------------------------------------
\* C21: in every reachable state every corner slot's label has 3 characters
\* and holds exactly one character of each of the pairs {x, X}, {y, Y} and
\* {z, Z}: it is a signed permutation of the three axes.
AxisPairs == {{"x", "X"}, {"y", "Y"}, {"z", "Z"}}

IsSignedAxisPermutation(label) ==
    /\ Len(label) = 3
    /\ \A pair \in AxisPairs : Cardinality({n \in 1..3 : label[n] \in pair}) = 1

C21_CornerLabelIsSignedPermutation ==
    \A c \in CornerSlots :
        IsSignedAxisPermutation(piece_current_orientations_for_visualizer[c])

\* Two tokens have been applied and a corner's label names the axes in an
\* order other than x, y, z.
C21_Witness ==
    /\ Len(move_history) = 2
    /\ \E c \in CornerSlots :
          /\ IsSignedAxisPermutation(piece_current_orientations_for_visualizer[c])
          /\ LowerCase(piece_current_orientations_for_visualizer[c][1]) # "x"

\* C22: in every reachable state the six face-center pieces and the core
\* piece are in their solved slots, and the flag and the label stored at
\* those seven slots are the solved ones.
CenterSlots == {p \in Slots : piece_initial_ids_at_positions[p] \in CENTER_PIECE_IDS}

CentersAtHome(st) ==
    \A p \in CenterSlots :
        /\ st.ids[p] = piece_initial_ids_at_positions[p]
        /\ st.sol[p] = piece_initial_orientations_for_solver[p]
        /\ st.vis[p] = piece_initial_orientations_for_visualizer[p]

C22_CentersNeverMove == Cardinality(CenterSlots) = 7 /\ CentersAtHome(Tracker)

\* Two opposite layers have been turned: 16 of the 20 edge and corner slots
\* hold another piece than in the solved state, and the seven center slots
\* hold what they held.
C22_Witness ==
    /\ Cardinality({p \in EdgeSlots \cup CornerSlots :
            piece_current_ids_at_positions[p] # piece_initial_ids_at_positions[p]}) = 16
    /\ CentersAtHome(Tracker)

\* C23: in every reachable state get_piece_at_position(get_position_of_piece(p))
\* is p for every piece id p, get_position_of_piece(get_piece_at_position(s))
\* is s for every slot s, and get_orientation_of_piece(p) is the element of
\* the flag array at p's current slot; a call of an accessor returns a value
\* that agrees with these and changes neither the three arrays nor the
\* history.
AccessorsAgree(st) ==
    /\ \A p \in PieceIds :
          /\ get_position_of_piece(st.ids, p) \in Slots
          /\ get_piece_at_position(st.ids, get_position_of_piece(st.ids, p)) = p
          /\ get_orientation_of_piece(st.ids, st.sol, p)
               = st.sol[get_position_of_piece(st.ids, p)]
    /\ \A s \in Slots :
          get_position_of_piece(st.ids, get_piece_at_position(st.ids, s)) = s

ReturnedAgrees(st, r) ==
    CASE r.call = "get_position_of_piece" -> st.ids[r.value] = r.arg
      [] r.call = "get_piece_at_position" ->
             get_position_of_piece(st.ids, r.value) = r.arg
      [] r.call = "get_orientation_of_piece" ->
             r.value = st.sol[get_position_of_piece(st.ids, r.arg)]
      [] OTHER -> TRUE

AccessorIsPure ==
    returned' # returned =>
        /\ UNCHANGED <<piece_current_ids_at_positions,
                       piece_current_orientations_for_solver,
                       piece_current_orientations_for_visualizer, move_history>>
        /\ ReturnedAgrees(Tracker, returned')

C23_AccessorsPureAndConsistent == [](AccessorsAgree(Tracker)) /\ [][AccessorIsPure]_vars

\* After two calls of apply_moves the caller asked where a piece is, and
\* was told a slot other than the piece's solved slot.
C23_Witness ==
    /\ Len(move_history) = 2
    /\ returned.call = "get_position_of_piece"
    /\ returned.value # InitialPositionOf[returned.arg]
    /\ piece_current_ids_at_positions[returned.value] = returned.arg

\* C24: a call of apply_moves on one tracker leaves the grid, flags, labels
\* and history of every other tracker as they were; the class-level solved
\* arrays and lookup tables, once made, keep their values; and a tracker
\* built after other trackers were moved has the solved grid, flags and
\* labels and an empty history.
ClassInitialized == class_attributes.tables # NoAddress

ClassKeepsSolvedArrays ==
    ClassInitialized =>
        /\ heap[class_attributes.piece_initial_ids_at_positions]
             = piece_initial_ids_at_positions
        /\ heap[class_attributes.piece_initial_orientations_for_solver]
             = piece_initial_orientations_for_solver
        /\ heap[class_attributes.piece_initial_orientations_for_visualizer]
             = piece_initial_orientations_for_visualizer
        /\ heap[class_attributes.tables] = LoadedTables

Moved(t) == TrackerValue(heap', trackers'[t]) # TrackerValue(heap, trackers[t])

OneTrackerChanges ==
    /\ \A t, u \in 1..Len(trackers) : Moved(t) /\ Moved(u) => t = u
    /\ Len(trackers') > Len(trackers) =>
          /\ \A t \in 1..Len(trackers) : ~Moved(t)
          /\ TrackerValue(heap', trackers'[Len(trackers')]) = SolvedTracker

C24_TrackersShareNoState == []ClassKeepsSolvedArrays /\ [][OneTrackerChanges]_vars

\* Two trackers: the first has been moved twice, the second is solved and
\* has an empty history.
C24_Witness ==
    /\ Len(trackers) = 2
    /\ Len(heap[trackers[1].move_history]) = 2
    /\ heap[trackers[1].piece_current_ids_at_positions] # piece_initial_ids_at_positions
    /\ TrackerValue(heap, trackers[2]) = SolvedTracker
    /\ ClassKeepsSolvedArrays

\* C25: once the class is initialized, edge_positions holds exactly the 12
\* slots with exactly one coordinate equal to 1 and corner_positions exactly
\* the 8 slots with no coordinate equal to 1; the six face-center slots and
\* the core are in neither list, the lists are disjoint, and edge_ids and
\* corner_ids are the pieces the solved grid holds at those slots.
OnesIn(p) == Cardinality({n \in 1..3 : Coord(p)[n] = 1})

NoDuplicates(seq) == \A m, n \in 1..Len(seq) : seq[m] = seq[n] => m = n

Classified(cls) ==
    /\ SeqRange(cls.edge_positions) = {p \in Slots : OnesIn(p) = 1}
    /\ Len(cls.edge_positions) = 12 /\ NoDuplicates(cls.edge_positions)
    /\ SeqRange(cls.corner_positions) = {p \in Slots : OnesIn(p) = 0}
    /\ Len(cls.corner_positions) = 8 /\ NoDuplicates(cls.corner_positions)
    /\ {p \in Slots : OnesIn(p) >= 2}
         \cap (SeqRange(cls.edge_positions) \cup SeqRange(cls.corner_positions)) = {}
    /\ Cardinality({p \in Slots : OnesIn(p) >= 2}) = 7
    /\ SeqRange(cls.edge_positions) \cap SeqRange(cls.corner_positions) = {}
    /\ SeqRange(cls.edge_ids)
         = {heap[cls.piece_initial_ids_at_positions][p] : p \in SeqRange(cls.edge_positions)}
    /\ Len(cls.edge_ids) = 12
    /\ SeqRange(cls.corner_ids)
         = {heap[cls.piece_initial_ids_at_positions][p] : p \in SeqRange(cls.corner_positions)}
    /\ Len(cls.corner_ids) = 8

C25_ClassifierSplitsEdgesAndCorners == ClassInitialized => Classified(class_attributes)

\* The first tracker has been built, so the classifier has run, and the
\* lists it made are not empty.
C25_Witness ==
    /\ Len(trackers) = 1
    /\ ClassInitialized
    /\ class_attributes.edge_positions # <<>>
    /\ class_attributes.corner_positions # <<>>

\* C26: from every reachable state and for every token m, each edge piece
\* takes its flag with it: the piece at slot s is afterwards at
\* movements[m][s], and the flag there is the piece's previous flag, flipped
\* exactly when the slot changes and the table distance from the piece's
\* home to the old slot equals the distance to the new one.
FlipFlag(flag) == IF flag = "b" THEN "g" ELSE "b"

DistanceKept(st, m, s) ==
    /\ movements[m][s] # s
    /\ edge_distances[<<InitialPositionOf[st.ids[s]], s>>]
         = edge_distances[<<InitialPositionOf[st.ids[s]], movements[m][s]>>]

EdgesCarryFlags(st, m, after) ==
    \A s \in EdgeSlots :
        /\ after.ids[movements[m][s]] = st.ids[s]
        /\ after.sol[movements[m][s]]
             = IF DistanceKept(st, m, s) THEN FlipFlag(st.sol[s]) ELSE st.sol[s]

C26_EdgeFlagTravelsWithPiece ==
    \A m \in MoveKeys : EdgesCarryFlags(Tracker, m, ApplyToken(Tracker, m))

\* The second of two tokens moved an edge of unchanged distance, whose flag
\* it flipped, and an edge of changed distance, whose flag it kept.
C26_Witness ==
    /\ Len(move_history) = 2
    /\ LET before == Replay(Front(move_history))
           m      == move_history[2]
       IN  /\ EdgesCarryFlags(before, m, Tracker)
           /\ \E s, t \in EdgeSlots :
                 /\ DistanceKept(before, m, s)
                 /\ piece_current_orientations_for_solver[movements[m][s]] # before.sol[s]
                 /\ movements[m][t] # t /\ ~DistanceKept(before, m, t)
                 /\ piece_current_orientations_for_solver[movements[m][t]] = before.sol[t]

\* C27: from every reachable state, after a quarter-turn token about axis
\* A, for every corner piece of the turned layer the character that named A
\* is unchanged, the character that named another axis B is the destination
\* slot's solved letter of the third axis, and the string so updated is the
\* label at the destination slot movements[m][s].
Axes == {"x", "y", "z"}

SolvedLetter(d, axis) ==
    CHOOSE c \in SeqRange(piece_initial_orientations_for_visualizer[d]) :
        LowerCase(c) = axis

ThirdAxis(a, b) == CHOOSE c \in Axes : c \notin {a, b}

QuarterRelabelled(label, m, d) ==
    [i \in 1..3 |->
        IF LowerCase(label[i]) = AxisOf(m) THEN label[i]
        ELSE SolvedLetter(d, ThirdAxis(AxisOf(m), LowerCase(label[i])))]

CornersCycle(st, m, after) ==
    \A s \in CornerSlots \cap FaceLayer(m[1]) :
        /\ movements[m][s] # s
        /\ after.ids[movements[m][s]] = st.ids[s]
        /\ after.vis[movements[m][s]] = QuarterRelabelled(st.vis[s], m, movements[m][s])

C27_QuarterTurnCyclesCornerLetters ==
    \A m \in QuarterMoveKeys : CornersCycle(Tracker, m, ApplyToken(Tracker, m))

\* The second of two quarter turns about different axes moved a corner
\* whose label the first had already permuted.
C27_Witness ==
    /\ Len(move_history) = 2
    /\ move_history[1] \in QuarterMoveKeys /\ move_history[2] \in QuarterMoveKeys
    /\ AxisOf(move_history[1]) # AxisOf(move_history[2])
    /\ LET before == Replay(Front(move_history))
           m      == move_history[2]
       IN  /\ CornersCycle(before, m, Tracker)
           /\ \E s \in CornerSlots \cap FaceLayer(m[1]) :
                 /\ LowerCase(before.vis[s][1]) # "x"
                 /\ Tracker.vis[movements[m][s]] # before.vis[s]

\* C28: from every reachable state, after a half-turn token, for every
\* corner piece of the turned layer the character naming the turned axis is
\* unchanged and each of the other two keeps its axis letter and changes
\* case; the string so updated is the label at the destination slot, and
\* its characters are the destination slot's solved letters.
OtherCase(c) == CHOOSE d \in UNION AxisPairs : LowerCase(d) = LowerCase(c) /\ d # c

HalfRelabelled(label, m) ==
    [i \in 1..3 |->
        IF LowerCase(label[i]) = AxisOf(m) THEN label[i] ELSE OtherCase(label[i])]

CornersInvert(st, m, after) ==
    \A s \in CornerSlots \cap FaceLayer(m[1]) :
        /\ movements[m][s] # s
        /\ after.ids[movements[m][s]] = st.ids[s]
        /\ after.vis[movements[m][s]] = HalfRelabelled(st.vis[s], m)
        /\ SeqRange(after.vis[movements[m][s]])
             = SeqRange(piece_initial_orientations_for_visualizer[movements[m][s]])

C28_HalfTurnInvertsCornerCase ==
    \A m \in HalfMoveKeys : CornersInvert(Tracker, m, ApplyToken(Tracker, m))

\* A half turn after a quarter turn about another axis moved a corner whose
\* label the quarter turn had permuted.
C28_Witness ==
    /\ Len(move_history) = 2
    /\ move_history[1] \in QuarterMoveKeys /\ move_history[2] \in HalfMoveKeys
    /\ AxisOf(move_history[1]) # AxisOf(move_history[2])
    /\ LET before == Replay(Front(move_history))
           m      == move_history[2]
       IN  /\ CornersInvert(before, m, Tracker)
           /\ \E s \in CornerSlots \cap FaceLayer(m[1]) :
                 LowerCase(before.vis[s][1]) # "x"

\* C29: from every reachable state and for every face X, the token X2
\* gives the same position grid and the same facelet labels, of edges and
\* corners, as the token X applied twice and as the token X' applied twice.
SameGridAndLabels(a, b) == a.ids = b.ids /\ a.vis = b.vis /\ a.exc = b.exc

HalfIsTwoQuarters(st, X) ==
    /\ SameGridAndLabels(ApplyToken(st, Half(X)),
                         ApplyTokens(st, <<Quarter(X), Quarter(X)>>))
    /\ SameGridAndLabels(ApplyToken(st, Half(X)),
                         ApplyTokens(st, <<Prime(X), Prime(X)>>))

C29_HalfTurnEqualsTwoQuarterTurns == \A X \in FaceLetters : HalfIsTwoQuarters(Tracker, X)

\* The same quarter turn has been applied twice, and grid and labels are
\* those the half turn of that face gives to the solved cube.
C29_Witness ==
    /\ Len(move_history) = 2
    /\ move_history[1] \in QuarterMoveKeys
    /\ move_history[2] = move_history[1]
    /\ SameGridAndLabels(ApplyToken(SolvedTracker, Half(move_history[1][1])), Tracker)
    /\ ~IsSolvedGrid

\* C30: from every reachable state, the solved one among them, and for
\* every face X, the token X2 gives the same edge flags as the token X
\* applied twice.
SameFlags(a, b) == a.sol = b.sol

C30_HalfTurnFlagsEqualTwoQuarterTurns ==
    \A X \in FaceLetters :
        SameFlags(ApplyToken(Tracker, Half(X)),
                  ApplyTokens(Tracker, <<Quarter(X), Quarter(X)>>))

\* C31: the edge flags are a function of the configuration: whenever two
\* sequences of quarter-turn tokens, applied to two solved trackers, reach
\* the same position grid and the same facelet labels, the two trackers
\* have the same flag at every edge slot.
OnlyQuarterTurns(history) == \A n \in 1..Len(history) : history[n] \in QuarterMoveKeys

SameConfiguration(a, b) == a.ids = b.ids /\ a.vis = b.vis

FlagsFollowConfiguration(a, b) ==
    OnlyQuarterTurns(a.hist) /\ OnlyQuarterTurns(b.hist) /\ SameConfiguration(a, b)
        => \A e \in EdgeSlots : a.sol[e] = b.sol[e]

C31_FlagsAreFunctionOfConfiguration ==
    \A t, u \in 1..Len(trackers) :
        FlagsFollowConfiguration(TrackerValue(heap, trackers[t]),
                                 TrackerValue(heap, trackers[u]))

\* Two different sequences of two quarter turns brought the two trackers
\* to the same configuration, away from solved, with the same flags, some
\* of them 'b'.
C31_Witness ==
    /\ Len(trackers) = 2
    /\ LET a == TrackerValue(heap, trackers[1])
           b == TrackerValue(heap, trackers[2])
       IN  /\ Len(a.hist) = 2 /\ Len(b.hist) = 2
           /\ a.hist # b.hist
           /\ OnlyQuarterTurns(a.hist) /\ OnlyQuarterTurns(b.hist)
           /\ SameConfiguration(a, b)
           /\ a.ids # piece_initial_ids_at_positions
           /\ a.sol = b.sol
           /\ BadEdges(a.sol) # {}

\* C32: from every reachable state, each unprimed token X carries the
\* piece at a slot of its layer to the slot a clockwise quarter turn seen
\* from outside the face carries it to: with slots (i, j, k) counted front
\* to back, top to bottom, left to right, F sends (0,a,b) to (0,b,2-a), B
\* sends (2,a,b) to (2,2-b,a), U sends (a,0,b) to (2-b,0,a), D sends (a,2,b)
\* to (b,2,2-a), L sends (a,b,0) to (b,2-a,0) and R sends (a,b,2) to
\* (2-b,a,2); every other slot keeps its piece; X' is the inverse map and
\* X2 the map applied twice.
Clockwise(X, c) ==
    CASE X = "F" -> IF c[1] = 0 THEN <<0, c[3], 2 - c[2]>> ELSE c
      [] X = "B" -> IF c[1] = 2 THEN <<2, 2 - c[3], c[2]>> ELSE c
      [] X = "U" -> IF c[2] = 0 THEN <<2 - c[3], 0, c[1]>> ELSE c
      [] X = "D" -> IF c[2] = 2 THEN <<c[3], 2, 2 - c[1]>> ELSE c
      [] X = "L" -> IF c[3] = 0 THEN <<c[2], 2 - c[1], 0>> ELSE c
      [] X = "R" -> IF c[3] = 2 THEN <<2 - c[2], c[1], 2>> ELSE c

ClockwiseSlot(X, s) == Position(Clockwise(X, Coord(s)))

TurnsClockwise(st, X, quarter, prime, half) ==
    \A s \in Slots :
        /\ quarter.ids[ClockwiseSlot(X, s)] = st.ids[s]
        /\ prime.ids[s] = st.ids[ClockwiseSlot(X, s)]
        /\ half.ids[ClockwiseSlot(X, ClockwiseSlot(X, s))] = st.ids[s]

C32_TokensTurnFacesClockwise ==
    \A X \in FaceLetters :
        TurnsClockwise(Tracker, X, ApplyToken(Tracker, Quarter(X)),
                       ApplyToken(Tracker, Prime(X)), ApplyToken(Tracker, Half(X)))

\* A second clockwise quarter turn, of another face, has carried pieces the
\* first had already moved around its own face.
C32_Witness ==
    /\ Len(move_history) = 2
    /\ Len(move_history[1]) = 1 /\ Len(move_history[2]) = 1
    /\ NoOp \notin {move_history[1], move_history[2]}
    /\ move_history[1] # move_history[2]
    /\ LET before == Replay(Front(move_history))
           X      == move_history[2][1]
       IN  /\ \A s \in Slots :
                 piece_current_ids_at_positions[ClockwiseSlot(X, s)] = before.ids[s]
           /\ \E s \in FaceLayer(X) :
                 /\ before.ids[s] # piece_initial_ids_at_positions[s]
                 /\ ClockwiseSlot(X, s) # s

\* C33: between calls, in every reachable state, tokens of opposite faces
\* commute: for a token of L and one of R, of F and of B, or of U and of D,
\* with any turn modifier, either order gives the same position grid, edge
\* flags and facelet labels.
OppositeFaces == {<<"L", "R">>, <<"F", "B">>, <<"U", "D">>}

TokensOf(X) == {Quarter(X), Half(X), Prime(X)}

Commute(st, m, n) ==
    SameCube(ApplyTokens(st, <<m, n>>), ApplyTokens(st, <<n, m>>))

OppositeTokensCommute(st) ==
    \A pair \in OppositeFaces :
        \A m \in TokensOf(pair[1]) : \A n \in TokensOf(pair[2]) : Commute(st, m, n)

C33_OppositeFacesCommute == pc = "idle" => OppositeTokensCommute(Tracker)

\* Two calls turned two opposite faces of a cube, and the state is the one
\* the same two tokens give in the other order.
C33_Witness ==
    /\ pc = "idle"
    /\ Len(move_history) = 2
    /\ \E pair \in OppositeFaces :
          {move_history[1][1], move_history[2][1]} = {pair[1], pair[2]}
    /\ SameCube(Replay(<<move_history[2], move_history[1]>>), Tracker)
    /\ ~IsSolvedGrid


\* C34: in every reachable state, for every edge and corner slot, the label
\* stored at the slot has as many characters as the slot's solved label and
\* the same set of characters: each outward direction of the slot is named
\* exactly once.
NamesDirectionsOf(label, s) ==
    /\ Len(label) = Len(piece_initial_orientations_for_visualizer[s])
    /\ SeqRange(label) = SeqRange(piece_initial_orientations_for_visualizer[s])

C34_LabelNamesDirectionsOfSlot ==
    \A s \in EdgeSlots \cup CornerSlots :
        NamesDirectionsOf(piece_current_orientations_for_visualizer[s], s)

\* An edge slot and a corner slot hold labels that differ from their solved
\* labels and still name the directions of the slot.
C34_Witness ==
    /\ \E e \in EdgeSlots :
          /\ piece_current_orientations_for_visualizer[e]
               # piece_initial_orientations_for_visualizer[e]
          /\ NamesDirectionsOf(piece_current_orientations_for_visualizer[e], e)
    /\ \E c \in CornerSlots :
          /\ piece_current_orientations_for_visualizer[c]
               # piece_initial_orientations_for_visualizer[c]
          /\ NamesDirectionsOf(piece_current_orientations_for_visualizer[c], c)


\* C35: in every reachable state, an edge piece whose slot is at table
\* distance 1 from its home slot is flagged 'g' exactly when the one token
\* that carries it home leaves the home slot's label equal to the solved
\* label, and 'b' exactly when that token leaves the label flipped.
HomeToken(h, s) == CHOOSE m \in FaceMoveKeys : movements[m][s] = h

OneStepFromHome(st, s) ==
    /\ s \in EdgeSlots
    /\ edge_distances[<<InitialPositionOf[st.ids[s]], s>>] = 1

FlagTellsHomecoming(st, s, h, home) ==
    /\ st.sol[s] = "g" <=> home.vis[h] = piece_initial_orientations_for_visualizer[h]
    /\ st.sol[s] = "b" <=> home.vis[h] = Flipped(piece_initial_orientations_for_visualizer[h])

C35_FlagPredictsOneTokenReturn ==
    \A s \in EdgeSlots :
        OneStepFromHome(Tracker, s) =>
            LET h == InitialPositionOf[piece_current_ids_at_positions[s]]
            IN  FlagTellsHomecoming(Tracker, s, h, ApplyToken(Tracker, HomeToken(h, s)))


------------------------------------------------------------------------------
\* The slice-capable position model, Cube in src/cube_model_positions_only.py:
\* piece ids 1..27, one-character move tokens, lower case for the
\* counter-clockwise turn, and the middle slices M, E and S.  The instance is
\* the object trackers[1]; its attribute piece_current_positions holds the
\* address of the array in the heap.

\* Number of apply_moves calls made on the Cube.
MaxSliceCalls == 2

\* self.piece_initial_positions
slice_piece_initial_positions == [s \in Slots |-> s + 1]

\* The keys of Cube.move_map.
SliceMoveKeys ==
    {"U", "F", "B", "D", "L", "R", "u", "f", "b", "d", "l", "r",
     "M", "E", "S", "m", "e", "s"}

\* The arguments (perspective, slice_idx, direction) each move function
\* passes to _rotate_slice.
SliceArgs ==
    [m \in SliceMoveKeys |->
        CASE m = "F" -> <<0, 0, -1>>
          [] m = "f" -> <<0, 0,  1>>
          [] m = "M" -> <<0, 1, -1>>
          [] m = "m" -> <<0, 1,  1>>
          [] m = "B" -> <<0, 2,  1>>
          [] m = "b" -> <<0, 2, -1>>
          [] m = "U" -> <<1, 0, -1>>
          [] m = "u" -> <<1, 0,  1>>
          [] m = "E" -> <<1, 1, -1>>
          [] m = "e" -> <<1, 1,  1>>
          [] m = "D" -> <<1, 2,  1>>
          [] m = "d" -> <<1, 2, -1>>
          [] m = "L" -> <<2, 0, -1>>
          [] m = "l" -> <<2, 0,  1>>
          [] m = "S" -> <<2, 1, -1>>
          [] m = "s" -> <<2, 1,  1>>
          [] m = "R" -> <<2, 2,  1>>
          [] m = "r" -> <<2, 2, -1>>]

\* _rotate_slice: change the perspective, turn the slice, change back.
rotate_slice(cube, perspective, slice_idx, direction) ==
    change_perspective(
        RotateLayer(change_perspective(cube, perspective, -1), slice_idx, direction),
        perspective, 1)

\* The for loop of Cube.apply_moves from index (counted from 1): each known
\* move is applied at once, and the first unknown one raises ValueError with
\* the moves before it applied.
RECURSIVE CubeApplyFrom(_, _, _)
CubeApplyFrom(cube, move_sequence, index) ==
    IF index > Len(move_sequence) THEN [cube |-> cube, exc |-> "none", idx |-> -1]
    ELSE IF move_sequence[index] \notin SliceMoveKeys
         THEN [cube |-> cube, exc |-> "ValueError", idx |-> index - 1]
    ELSE LET a == SliceArgs[move_sequence[index]]
         IN  CubeApplyFrom(rotate_slice(cube, a[1], a[2], a[3]), move_sequence, index + 1)

\* The strings handed to Cube.apply_moves: every single move, two slice
\* moves in a row, and a string with an unknown character.
SliceArguments ==
    {<<m>> : m \in SliceMoveKeys} \cup {<<"M", "E">>, <<"S", "X">>}

\* cube = Cube()
SliceInit ==
    /\ piece_current_ids_at_positions = piece_initial_ids_at_positions
    /\ piece_current_orientations_for_solver = piece_initial_orientations_for_solver
    /\ piece_current_orientations_for_visualizer = piece_initial_orientations_for_visualizer
    /\ move_history = <<>>
    /\ raised = <<"none", -1>>
    /\ calls = 0
    /\ loaded_tables = TableNames
    /\ pc = "idle"
    /\ call_move_sequence = [is_str |-> TRUE, chars |-> <<>>]
    /\ call_moves_split = <<>>
    /\ position = 0
    /\ call_idx = 0
    /\ returned = NotCalled
    /\ class_attributes = Uninitialized
    /\ LET a == deepcopy(<<slice_piece_initial_positions>>, 1)
       IN  /\ heap = a.heap
           /\ trackers = <<[piece_initial_positions |-> 1,
                            piece_current_positions |-> a.address]>>

\* cube.apply_moves(move_sequence)
CubeApplyMoves(move_sequence) ==
    /\ calls < MaxSliceCalls
    /\ LET self == trackers[1]
           r    == CubeApplyFrom(heap[self.piece_current_positions], move_sequence, 1)
       IN  /\ heap' = [heap EXCEPT ![self.piece_current_positions] = r.cube]
           /\ raised' = <<r.exc, r.idx>>
    /\ calls' = calls + 1
    /\ UNCHANGED <<piece_current_ids_at_positions, piece_current_orientations_for_solver,
                   piece_current_orientations_for_visualizer, move_history,
                   loaded_tables, pc, call_move_sequence, call_moves_split,
                   position, call_idx, returned, class_attributes, trackers>>

SliceNext == \E move_sequence \in SliceArguments : CubeApplyMoves(move_sequence)

SliceSpec == SliceInit /\ [][SliceNext]_vars

\* C36: in the slice-capable model, after every call of apply_moves, slice
\* moves included, each of the six face-center pieces (ids 5, 11, 13, 15, 17
\* and 23) is in its solved slot.
FaceCenterIds == {5, 11, 13, 15, 17, 23}

C36_SliceMovesKeepCentersHome ==
    LET cube == heap[trackers[1].piece_current_positions]
    IN  \A p \in Slots :
            slice_piece_initial_positions[p] \in FaceCenterIds
                => cube[p] = slice_piece_initial_positions[p]


\* C37: apply_moves on the empty string returns without an exception and
\* changes nothing: the position grid, the flags, the labels and the move
\* history of the fresh tracker are the solved ones.
C37_EmptyStringIsNoOp ==
    (Returned /\ call_move_sequence.chars = <<>>)
        => /\ NoException
           /\ Tracker = SolvedTracker


------------------------------------------------------------------------------
\* The read accessors called with arguments that name no piece or no slot
\* of the cube.

\* A piece of each kind, and two integers that are not piece ids.
AskedPieceIds == {0, 1, 13, 26, 27, -1}

\* Coordinate tuples: a corner slot, the core slot, and tuples with a
\* component below 0 or above 2.
AskedPositions == {<<0, 0, 0>>, <<1, 1, 1>>, <<0, 0, 3>>, <<-1, 0, 0>>, <<2, -3, 1>>, <<0, -4, 0>>}

\* array[i, j, k] for a 3 x 3 x 3 numpy array: an index from -3 to -1 counts
\* from the end of its axis, and any other index outside 0..2 raises
\* IndexError.
Subscript(array, index) ==
    IF \E n \in 1..3 : index[n] < -3 \/ index[n] > 2
    THEN [exc |-> "IndexError", value |-> -1]
    ELSE [exc |-> "none",
          value |-> array[Position(<<index[1] % 3, index[2] % 3, index[3] % 3>>)]]

\* An accessor call that returns value or raises exc; nothing is assigned.
ReturnOrRaise(call, arg, value, exc) ==
    /\ returned' = [call |-> call, arg |-> arg, value |-> value, exc |-> exc]
    /\ UNCHANGED <<piece_current_ids_at_positions, piece_current_orientations_for_solver,
                   piece_current_orientations_for_visualizer, move_history, raised,
                   calls, loaded_tables, pc, call_move_sequence, call_moves_split,
                   position, call_idx, heap, class_attributes, trackers>>

AskPositionOfPiece(piece_id) ==
    ReturnOrRaise("get_position_of_piece", piece_id,
                  get_position_of_piece(piece_current_ids_at_positions, piece_id), "none")

AskOrientationOfPiece(piece_id) ==
    ReturnOrRaise("get_orientation_of_piece", piece_id,
                  get_orientation_of_piece(piece_current_ids_at_positions,
                                           piece_current_orientations_for_solver, piece_id),
                  "none")

\* i, j, k = position; return self.piece_current_ids_at_positions[i, j, k]
AskPieceAtPosition(at) ==
    LET r == Subscript(piece_current_ids_at_positions, at)
    IN  ReturnOrRaise("get_piece_at_position", at, r.value, r.exc)

MisuseNext ==
    \/ \E arg \in SampleArguments : ApplyMoves(arg)
    \/ \E piece_id \in AskedPieceIds : AskPositionOfPiece(piece_id)
    \/ \E piece_id \in AskedPieceIds : AskOrientationOfPiece(piece_id)
    \/ \E at \in AskedPositions : AskPieceAtPosition(at)

MisuseSpec == Init /\ [][MisuseNext]_vars

\* C38: a call of get_position_of_piece or get_orientation_of_piece with an
\* id that no slot of the cube holds, and a call of get_piece_at_position
\* with a coordinate that has a component outside 0..2, raises an exception
\* and returns no value.
Misused ==
    \/ /\ returned.call \in {"get_position_of_piece", "get_orientation_of_piece"}
       /\ \A p \in Slots : piece_current_ids_at_positions[p] # returned.arg
    \/ /\ returned.call = "get_piece_at_position"
       /\ \E n \in 1..3 : returned.arg[n] \notin 0..2

C38_AccessorMisuseRaises == Misused => returned.exc # "none"


------------------------------------------------------------------------------
\* One call of apply_moves on a fresh tracker with the tokenizer loop run
\* iteration by iteration and the for loop statement by statement.

\* Length of the strings handed to the call, and their characters.
MaxLoopLen == 3

LoopCharacters == {"F", "U", "2", "'", "X"}

LoopStrings == UNION {[1..n -> LoopCharacters] : n \in 0..MaxLoopLen}

\* WhileStep that does not advance idx past a one-character token.
WhileStep_KeepsIndex(move_sequence, idx, moves_split) ==
    IF idx <= Len(move_sequence) - 2
       /\ SubSeq(move_sequence, idx + 1, idx + 2) \in MoveKeys
    THEN [exc |-> "none", idx |-> idx + 2,
          moves_split |-> Append(moves_split, SubSeq(move_sequence, idx + 1, idx + 2)),
          break |-> idx + 2 >= Len(move_sequence)]
    ELSE IF idx >= Len(move_sequence)
    THEN [exc |-> "IndexError", idx |-> idx, moves_split |-> moves_split, break |-> FALSE]
    ELSE IF <<move_sequence[idx + 1]>> \in MoveKeys
    THEN [exc |-> "none", idx |-> idx,
          moves_split |-> Append(moves_split, <<move_sequence[idx + 1]>>),
          break |-> idx >= Len(move_sequence)]
    ELSE [exc |-> "ValueError", idx |-> idx, moves_split |-> moves_split, break |-> FALSE]

\* One iteration of the "while True" loop: the two-character token at idx,
\* else the one-character token, else ValueError; break once idx has
\* reached the end.  move_sequence[idx] past the end raises IndexError.
WhileStep(move_sequence, idx, moves_split) ==
    IF idx <= Len(move_sequence) - 2
       /\ SubSeq(move_sequence, idx + 1, idx + 2) \in MoveKeys
    THEN [exc |-> "none", idx |-> idx + 2,
          moves_split |-> Append(moves_split, SubSeq(move_sequence, idx + 1, idx + 2)),
          break |-> idx + 2 >= Len(move_sequence)]
    ELSE IF idx >= Len(move_sequence)
    THEN [exc |-> "IndexError", idx |-> idx, moves_split |-> moves_split, break |-> FALSE]
    ELSE IF <<move_sequence[idx + 1]>> \in MoveKeys
    THEN [exc |-> "none", idx |-> idx + 1,
          moves_split |-> Append(moves_split, <<move_sequence[idx + 1]>>),
          break |-> idx + 1 >= Len(move_sequence)]
    ELSE [exc |-> "ValueError", idx |-> idx, moves_split |-> moves_split, break |-> FALSE]

\* A fresh tracker and a caller about to call apply_moves on a string.
LoopInit ==
    /\ piece_current_ids_at_positions = piece_initial_ids_at_positions
    /\ piece_current_orientations_for_solver = piece_initial_orientations_for_solver
    /\ piece_current_orientations_for_visualizer = piece_initial_orientations_for_visualizer
    /\ move_history = <<>>
    /\ raised = <<"none", -1>>
    /\ calls = 0
    /\ loaded_tables = TableNames
    /\ pc = "called"
    /\ call_move_sequence \in {[is_str |-> TRUE, chars |-> s] : s \in LoopStrings}
    /\ call_moves_split = <<>>
    /\ position = 0
    /\ call_idx = 0
    /\ returned = NotCalled
    /\ heap = <<>>
    /\ class_attributes = Uninitialized
    /\ trackers = <<>>

\* The type check, idx = 0 and moves_split = [].
Enter ==
    /\ pc = "called"
    /\ calls' = calls + 1
    /\ IF ~call_move_sequence.is_str
       THEN /\ raised' = <<"ValueError", -1>>
            /\ pc' = "idle"
            /\ UNCHANGED <<call_moves_split, call_idx>>
       ELSE /\ call_idx' = 0
            /\ call_moves_split' = <<>>
            /\ pc' = "while"
            /\ UNCHANGED raised
    /\ UNCHANGED <<piece_current_ids_at_positions, piece_current_orientations_for_solver,
                   piece_current_orientations_for_visualizer, move_history, loaded_tables,
                   call_move_sequence, position, returned, heap, class_attributes,
                   trackers>>

\* One iteration of the tokenizer loop; after the break the for loop starts
\* at the first token.
Iterate ==
    /\ pc = "while"
    /\ LET r == WhileStep(call_move_sequence.chars, call_idx, call_moves_split)
       IN  IF r.exc # "none"
           THEN /\ raised' = <<r.exc, IF r.exc = "ValueError" THEN r.idx ELSE -1>>
                /\ pc' = "idle"
                /\ UNCHANGED <<call_idx, call_moves_split, position>>
           ELSE /\ call_idx' = r.idx
                /\ call_moves_split' = r.moves_split
                /\ pc' = IF r.break THEN LoopBody[1] ELSE "while"
                /\ position' = IF r.break THEN 1 ELSE position
                /\ UNCHANGED raised
    /\ UNCHANGED <<piece_current_ids_at_positions, piece_current_orientations_for_solver,
                   piece_current_orientations_for_visualizer, move_history, calls,
                   loaded_tables, call_move_sequence, returned, heap, class_attributes,
                   trackers>>

LoopNext ==
    \/ Enter
    \/ Iterate
    \/ AppendHistory
    \/ UpdateSolver
    \/ UpdateVisualizer
    \/ RotateFaces

LoopSpec == LoopInit /\ [][LoopNext]_vars

\* The interpreter runs the next statement of a call as long as there is
\* one.
LoopFairSpec == LoopSpec /\ WF_vars(LoopNext)

\* C39: a call of apply_moves on a non-empty string ends; every iteration
\* of the tokenizer loop that does not raise moves idx forward, never past
\* the end of the string; and a call that ends without an exception has run
\* the loop body once for each token the tokenizer produced, in their order.
IndexAdvances ==
    pc = "while" =>
        \/ raised'[1] # "none" /\ pc' = "idle"
        \/ call_idx < call_idx' /\ call_idx' <= Len(call_move_sequence.chars)

RoundsMatchTokens ==
    (pc = "idle" /\ calls = 1 /\ NoException) =>
        /\ position = Len(call_moves_split) + 1
        /\ move_history = call_moves_split
        /\ Tracker = Replay(call_moves_split)

CallEnds ==
    (pc = "called" /\ call_move_sequence.chars # <<>>) ~> (pc = "idle" /\ calls = 1)

C39_CallsTerminate == [][IndexAdvances]_vars /\ []RoundsMatchTokens /\ CallEnds

\* A call on a string of three characters has ended normally after two
\* tokenizer iterations and two rounds of the loop body.
C39_Witness ==
    /\ pc = "idle"
    /\ calls = 1
    /\ NoException
    /\ Len(call_move_sequence.chars) = 3
    /\ call_idx = 3
    /\ Len(call_moves_split) = 2
    /\ position = 3
    /\ Len(move_history) = 2

====
